---- MODULE Spec2Model ----
(***************************************************************************)
(* torch-build: resolution of the libtorch installation (probe.rs), the    *)
(* capability model (library.rs) and the host architecture registry        *)
(* (cuda.rs), as a state machine.                                          *)
(*                                                                         *)
(* Paths are sequences of components (Path::join appends a component).     *)
(* Option<T> is a sequence of length 0 (None) or 1 (Some).                 *)
(* Result<T> is a record [ok |-> TRUE, val |-> v] or                       *)
(* [ok |-> FALSE, err |-> kind].                                           *)
(*                                                                         *)
(* Only the unix builds are modelled (target_os "linux" and "macos"): the  *)
(* cfg(target_os = "windows") branches of probe.rs and library.rs do not   *)
(* compile (Path::from, cuda_home.un).                                     *)
(***************************************************************************)
EXTENDS Integers, Sequences, FiniteSets, TLC

\* ------------------------------------------------------------------ bounds

\* Calls of probe_libtorch / cuda_arches made by the process.
MaxCalls == 2

\* ------------------------------------------------------------ Option/Result

None == <<>>
Some(x) == <<x>>
IsSome(o) == o # <<>>
Unwrap(o) == o[1]

Ok(v) == [ok |-> TRUE, val |-> v]
Err(e) == [ok |-> FALSE, err |-> e]

\* Elements of a sequence, and a sequence filtered by a membership test.
Range(s) == {s[i] : i \in 1..Len(s)}

RECURSIVE Without(_, _)
Without(s, bad) ==
    IF s = <<>> THEN <<>>
    ELSE IF Head(s) \in bad THEN Without(Tail(s), bad)
         ELSE <<Head(s)>> \o Without(Tail(s), bad)

\* -------------------------------------------------------------------- paths

Join(p, c) == Append(p, c)

\* The directories the model's world knows.
OverrideDir == <<"opt", "libtorch">>
UsrDir == <<"usr">>
SystemLibtorch == <<"usr", "lib", "libtorch.so">>
OUT_DIR == <<"out">>
PyLibDir == <<"py", "torch", "lib">>
PyIncludeDir == <<"py", "torch", "include">>
UsrInclude == <<"usr", "include">>
CudaDir == <<"usr", "local", "cuda">>
CudaAltDir == <<"opt", "cuda">>
CudnnDir == <<"opt", "cudnn">>
RocmDir == <<"opt", "rocm">>

ArtefactNames == {"torch_hip", "torch_cuda", "torch_cuda_cu", "torch_cuda_cpp"}

VARIABLES
    target_os,         \* cfg(target_os) of the build: "linux" or "macos"
    os_type,           \* os_info::get().os_type() of the host
    feature_download,  \* cfg(feature = "download-libtorch")
    env,               \* the process environment: name -> Option value
    lazy,              \* the Lazy statics of env.rs: name -> Option (forced value)
    rerun,             \* names printed in a cargo:rerun-if-env-changed directive
    consumed,          \* names whose value the process has read
    files,             \* the paths that exist in the filesystem
    threads,           \* the threads of the process
    pc,                \* per thread: "idle" or "probing" (inside PROBE's initialiser)
    ret,               \* per thread: Option of the Result of its last call
    PROBE,             \* probe.rs PROBE: OnceCell<Library>
    ARCHES,            \* cuda.rs ARCHES: OnceCell<Vec<CudaArch>>
    devices,           \* the compute capabilities of the installed devices
    ops,               \* the expensive operations run so far: name -> count
    last,              \* what the last run of the resolution body did
    calls,             \* calls made so far, per function
    panicked,          \* the process was aborted by a panic
    out                \* the result of the last accessor call on a Library

vars == <<target_os, os_type, feature_download, env, lazy, rerun, consumed, files, threads, pc, ret, PROBE,
          ARCHES, devices, ops, last, calls, panicked, out>>

\* ------------------------------------------------------- environment (env.rs)

EnvNames ==
    {"LIBTORCH", "LIBTORCH_USE_PYTORCH", "LIBTORCH_CXX11_ABI",
     "LIBTORCH_BYPASS_VERSION_CHECK", "CUDA_HOME", "CUDA_PATH", "CUDNN_HOME",
     "CUDNN_PATH", "ROCM_HOME", "ROCM_PATH", "TARGET", "VIRTUAL_ENV"}

LazyNames ==
    {"LIBTORCH", "LIBTORCH_USE_PYTORCH", "LIBTORCH_CXX11_ABI",
     "LIBTORCH_BYPASS_VERSION_CHECK", "CUDA_HOME", "CUDNN_HOME", "ROCM_HOME",
     "TARGET"}

\* What `which nvcc` and `which hipcc | xargs readlink -f` print when the
\* binaries are installed.
NvccFile == <<"usr", "local", "cuda", "bin", "nvcc">>
HipccFile == <<"opt", "rocm", "hip", "bin", "hipcc">>

\* Path::parent, Path::file_name.
Parent(p) == IF p = <<>> THEN None ELSE Some(SubSeq(p, 1, Len(p) - 1))
FileName(p) == IF p = <<>> THEN None ELSE Some(p[Len(p)])

\* Option::or_else.
OrElse(a, b) == IF IsSome(a) THEN a ELSE b

\* rerun_env / rerun_env_pathbuf / rerun_env_string: the variable's value.
rerun_env(name) == env[name]

\* A flag variable: set and different from "0".
EnvFlag(name) == IsSome(rerun_env(name)) /\ Unwrap(rerun_env(name)) # "0"

\* LIBTORCH_CXX11_ABI: Some(true) for "1", Some(false) for "0", else None.
CXX11_ABI_init ==
    LET val == rerun_env("LIBTORCH_CXX11_ABI") IN
    IF ~IsSome(val) THEN None
    ELSE IF Unwrap(val) = "1" THEN Some(TRUE)
    ELSE IF Unwrap(val) = "0" THEN Some(FALSE)
    ELSE None

\* CUDNN_HOME, or CUDNN_PATH if CUDNN_HOME is not set.
CUDNN_HOME_init == OrElse(rerun_env("CUDNN_HOME"), rerun_env("CUDNN_PATH"))

\* ROCM_HOME, ROCM_PATH, the prefix of hipcc, /opt/rocm.
ROCM_HOME_init ==
    LET guess1 == OrElse(rerun_env("ROCM_HOME"), rerun_env("ROCM_PATH"))
        hipcc ==
            IF HipccFile \in files
            THEN LET dir == Unwrap(Parent(Unwrap(Parent(HipccFile)))) IN
                 IF FileName(dir) = Some("hip") THEN Parent(dir) ELSE None
            ELSE None
        guess2 == OrElse(guess1, hipcc)
    IN  OrElse(guess2, IF RocmDir \in files THEN Some(RocmDir) ELSE None)

\* CUDA_HOME, CUDA_PATH, the prefix of nvcc, /usr/local/cuda on Debian or Ubuntu.
CUDA_HOME_init ==
    LET guess1 == OrElse(rerun_env("CUDA_HOME"), rerun_env("CUDA_PATH"))
        nvcc ==
            IF NvccFile \in files
            THEN Parent(Unwrap(Parent(NvccFile)))
            ELSE None
        guess2 == OrElse(guess1, nvcc)
    IN  IF os_type \in {"Debian", "Ubuntu"}
        THEN OrElse(guess2, IF CudaDir \in files THEN Some(CudaDir) ELSE None)
        ELSE guess2

\* The initialiser of each Lazy static, run at its first dereference.
LazyInit(name) ==
    CASE name = "LIBTORCH" -> rerun_env("LIBTORCH")
      [] name = "LIBTORCH_USE_PYTORCH" -> EnvFlag("LIBTORCH_USE_PYTORCH")
      [] name = "LIBTORCH_BYPASS_VERSION_CHECK" -> EnvFlag("LIBTORCH_BYPASS_VERSION_CHECK")
      [] name = "LIBTORCH_CXX11_ABI" -> CXX11_ABI_init
      [] name = "CUDNN_HOME" -> CUDNN_HOME_init
      [] name = "ROCM_HOME" -> ROCM_HOME_init
      [] name = "CUDA_HOME" -> CUDA_HOME_init
      [] name = "TARGET" -> rerun_env("TARGET")

\* The names each initialiser passes to rerun_env: a fallback name is read
\* only when the first name is not set.
LazyReads(name) ==
    CASE name = "CUDNN_HOME" ->
            {"CUDNN_HOME"} \cup (IF IsSome(env["CUDNN_HOME"]) THEN {} ELSE {"CUDNN_PATH"})
      [] name = "ROCM_HOME" ->
            {"ROCM_HOME"} \cup (IF IsSome(env["ROCM_HOME"]) THEN {} ELSE {"ROCM_PATH"})
      [] name = "CUDA_HOME" ->
            {"CUDA_HOME"} \cup (IF IsSome(env["CUDA_HOME"]) THEN {} ELSE {"CUDA_PATH"})
      [] OTHER -> {name}

\* Dereferencing a Lazy: the cached value, else what its initialiser gives now.
Deref(name) == IF IsSome(lazy[name]) THEN Unwrap(lazy[name]) ELSE LazyInit(name)

\* The Lazy statics after the ones in `names` were dereferenced.
Forced(names) ==
    [n \in LazyNames |->
        IF n \in names /\ ~IsSome(lazy[n]) THEN Some(LazyInit(n)) ELSE lazy[n]]

\* The env names read (and marked for rerun) by dereferencing `names`.
ReadBy(names) ==
    UNION {LazyReads(n) : n \in {m \in names : ~IsSome(lazy[m])}}

\* ------------------------------------------- capability detection (probe.rs)

\* The file name of a shared library on linux: lib<name>.so.
SoName(name) ==
    CASE name = "torch_hip" -> "libtorch_hip.so"
      [] name = "torch_cuda" -> "libtorch_cuda.so"
      [] name = "torch_cuda_cu" -> "libtorch_cuda_cu.so"
      [] name = "torch_cuda_cpp" -> "libtorch_cuda_cpp.so"

\* probe_cuda_api's closure: the artefact exists in lib_dir. Only linux (and
\* windows) name an artefact; on any other target the probe is false.
probe_library_file(fs, lib_dir, name) ==
    IF target_os = "linux" THEN Join(lib_dir, SoName(name)) \in fs ELSE FALSE

ApiNone == [tag |-> "None"]
HipApi(rocm_home, miopen_home) ==
    [tag |-> "Hip", rocm_home |-> rocm_home, miopen_home |-> miopen_home]
CudaApi(cuda_home, cudnn_home) ==
    [tag |-> "Cuda", cuda_home |-> cuda_home, cudnn_home |-> cudnn_home]
CudaSplitApi(cuda_home, cudnn_home) ==
    [tag |-> "CudaSplit", cuda_home |-> cuda_home, cudnn_home |-> cudnn_home]

\* Mutant: a configured CUDA home alone selects Cuda, artefact or not.
probe_cuda_api_config_only(fs, lib_dir) ==
    IF IsSome(Deref("ROCM_HOME")) /\ probe_library_file(fs, lib_dir, "torch_hip")
    THEN HipApi(Unwrap(Deref("ROCM_HOME")), Join(Unwrap(Deref("ROCM_HOME")), "miopen"))
    ELSE IF IsSome(Deref("CUDA_HOME"))
    THEN IF probe_library_file(fs, lib_dir, "torch_cuda_cu")
            /\ probe_library_file(fs, lib_dir, "torch_cuda_cpp")
         THEN CudaSplitApi(Unwrap(Deref("CUDA_HOME")), Deref("CUDNN_HOME"))
         ELSE CudaApi(Unwrap(Deref("CUDA_HOME")), Deref("CUDNN_HOME"))
    ELSE ApiNone

\* Mutant: the CUDA branch is tried before the ROCm branch.
probe_cuda_api_cuda_first(fs, lib_dir) ==
    IF IsSome(Deref("CUDA_HOME"))
       /\ probe_library_file(fs, lib_dir, "torch_cuda_cu")
       /\ probe_library_file(fs, lib_dir, "torch_cuda_cpp")
    THEN CudaSplitApi(Unwrap(Deref("CUDA_HOME")), Deref("CUDNN_HOME"))
    ELSE IF IsSome(Deref("CUDA_HOME")) /\ probe_library_file(fs, lib_dir, "torch_cuda")
    THEN CudaApi(Unwrap(Deref("CUDA_HOME")), Deref("CUDNN_HOME"))
    ELSE IF IsSome(Deref("ROCM_HOME")) /\ probe_library_file(fs, lib_dir, "torch_hip")
    THEN HipApi(Unwrap(Deref("ROCM_HOME")), Join(Unwrap(Deref("ROCM_HOME")), "miopen"))
    ELSE ApiNone

\* Mutant: the monolithic runtime is looked for before the split modules.
probe_cuda_api_monolithic_first(fs, lib_dir) ==
    IF IsSome(Deref("ROCM_HOME")) /\ probe_library_file(fs, lib_dir, "torch_hip")
    THEN HipApi(Unwrap(Deref("ROCM_HOME")), Join(Unwrap(Deref("ROCM_HOME")), "miopen"))
    ELSE IF IsSome(Deref("CUDA_HOME"))
    THEN IF probe_library_file(fs, lib_dir, "torch_cuda")
         THEN CudaApi(Unwrap(Deref("CUDA_HOME")), Deref("CUDNN_HOME"))
         ELSE IF probe_library_file(fs, lib_dir, "torch_cuda_cu")
                 /\ probe_library_file(fs, lib_dir, "torch_cuda_cpp")
         THEN CudaSplitApi(Unwrap(Deref("CUDA_HOME")), Deref("CUDNN_HOME"))
         ELSE ApiNone
    ELSE ApiNone

\* Mutant: one split module without the other counts as a broken install.
probe_cuda_api_partial_split(fs, lib_dir) ==
    IF IsSome(Deref("ROCM_HOME")) /\ probe_library_file(fs, lib_dir, "torch_hip")
    THEN HipApi(Unwrap(Deref("ROCM_HOME")), Join(Unwrap(Deref("ROCM_HOME")), "miopen"))
    ELSE IF IsSome(Deref("CUDA_HOME"))
    THEN IF probe_library_file(fs, lib_dir, "torch_cuda_cu")
            /\ probe_library_file(fs, lib_dir, "torch_cuda_cpp")
         THEN CudaSplitApi(Unwrap(Deref("CUDA_HOME")), Deref("CUDNN_HOME"))
         ELSE IF probe_library_file(fs, lib_dir, "torch_cuda_cu")
                 \/ probe_library_file(fs, lib_dir, "torch_cuda_cpp")
         THEN ApiNone
         ELSE IF probe_library_file(fs, lib_dir, "torch_cuda")
         THEN CudaApi(Unwrap(Deref("CUDA_HOME")), Deref("CUDNN_HOME"))
         ELSE ApiNone
    ELSE ApiNone

\* The ROCm branch is tried first and needs both the home and the artefact.
probe_cuda_api(fs, lib_dir) ==
    IF IsSome(Deref("ROCM_HOME")) /\ probe_library_file(fs, lib_dir, "torch_hip")
    THEN HipApi(Unwrap(Deref("ROCM_HOME")), Join(Unwrap(Deref("ROCM_HOME")), "miopen"))
    ELSE IF IsSome(Deref("CUDA_HOME"))
    THEN IF probe_library_file(fs, lib_dir, "torch_cuda_cu")
            /\ probe_library_file(fs, lib_dir, "torch_cuda_cpp")
         THEN CudaSplitApi(Unwrap(Deref("CUDA_HOME")), Deref("CUDNN_HOME"))
         ELSE IF probe_library_file(fs, lib_dir, "torch_cuda")
         THEN CudaApi(Unwrap(Deref("CUDA_HOME")), Deref("CUDNN_HOME"))
         ELSE ApiNone
    ELSE ApiNone

\* The Lazy statics probe_cuda_api dereferences on its way to `api`.
ApiDerefs(api) ==
    CASE api.tag = "Hip" -> {"ROCM_HOME"}
      [] api.tag \in {"Cuda", "CudaSplit"} -> {"ROCM_HOME", "CUDA_HOME", "CUDNN_HOME"}
      [] OTHER -> {"ROCM_HOME", "CUDA_HOME"}

\* --------------------------------------------------- Library (library.rs)

Library(include_dirs, lib_dir, api, use_cxx11_abi) ==
    [include_dirs |-> include_dirs, lib_dir |-> lib_dir, api |-> api,
     use_cxx11_abi |-> use_cxx11_abi]

\* A variant that reports the GPU runtime on every Library.
is_cuda_api_available_always(lib) == TRUE

is_cuda_api_available(lib) == lib.api.tag # "None"
is_hip(api) == api.tag = "Hip"

\* Option<&Path>::map(|path| path.join(c)) as a sequence of zero or one path.
MapJoin(opt, c) == IF IsSome(opt) THEN <<Join(Unwrap(opt), c)>> ELSE <<>>

\* Mutant: an unset request counts as false.
UseCudaApi_unset_is_false(lib, use_cuda_api) ==
    IF IsSome(use_cuda_api) THEN Unwrap(use_cuda_api) ELSE FALSE

\* Mutant: the request is ignored, the detected availability decides.
UseCudaApi_detected(lib, use_cuda_api) == is_cuda_api_available(lib)

\* The tri-state request: Some(b) is b, None mirrors the detected availability.
UseCudaApi(lib, use_cuda_api) ==
    IF IsSome(use_cuda_api) THEN Unwrap(use_cuda_api) ELSE is_cuda_api_available(lib)

include_paths(lib, use_cuda_api) ==
    LET api == lib.api
        extra_includes ==
            IF UseCudaApi(lib, use_cuda_api)
            THEN CASE api.tag = "Hip" ->
                        Ok(<<Join(api.rocm_home, "include"), Join(api.miopen_home, "include")>>)
                   [] api.tag \in {"Cuda", "CudaSplit"} ->
                        Ok(<<Join(api.cuda_home, "include")>> \o MapJoin(api.cudnn_home, "include"))
                   [] OTHER -> Err("GpuUnavailable")
            ELSE Ok(<<>>)
    IN  IF ~extra_includes.ok THEN extra_includes
        ELSE LET all_includes == lib.include_dirs \o extra_includes.val IN
             Ok(IF target_os = "linux" THEN Without(all_includes, {UsrInclude})
                ELSE all_includes)

\* Mutant: lib is preferred over lib64.
GuessLibDir_lib_first(home) ==
    IF Join(home, "lib") \in files THEN Ok(Join(home, "lib"))
    ELSE IF Join(home, "lib64") \in files THEN Ok(Join(home, "lib64"))
    ELSE Err("NoToolkitLibDir")

\* lib64 when it exists, else lib when it exists, else the call fails.
GuessLibDir(home) ==
    LET guess1 == Join(home, "lib64")
        guess2 == Join(home, "lib")
    IN  IF guess1 \in files THEN Ok(guess1)
        ELSE IF guess2 \in files THEN Ok(guess2)
        ELSE Err("NoToolkitLibDir")

link_paths(lib, use_cuda_api) ==
    LET api == lib.api
        extra_dirs ==
            IF UseCudaApi(lib, use_cuda_api)
            THEN CASE api.tag = "Hip" -> Ok(<<Join(api.rocm_home, "lib")>>)
                   [] api.tag \in {"Cuda", "CudaSplit"} ->
                        LET cuda_lib_dir == GuessLibDir(api.cuda_home) IN
                        IF ~cuda_lib_dir.ok THEN cuda_lib_dir
                        ELSE IF IsSome(api.cudnn_home)
                        THEN LET cudnn_lib_dir == GuessLibDir(Unwrap(api.cudnn_home)) IN
                             IF ~cudnn_lib_dir.ok THEN cudnn_lib_dir
                             ELSE Ok(<<cuda_lib_dir.val, cudnn_lib_dir.val>>)
                        ELSE Ok(<<cuda_lib_dir.val>>)
                   [] OTHER -> Err("GpuUnavailable")
            ELSE Ok(<<>>)
    IN  IF ~extra_dirs.ok THEN extra_dirs
        ELSE Ok(<<lib.lib_dir>> \o extra_dirs.val)

\* str::contains on a target triple, at the granularity of its components.
TargetContains(target, word) == word \in Range(target)

\* Mutant: torch_python is linked after the GPU libraries.
libraries_python_last(lib, use_cuda_api, use_python) ==
    LET api == lib.api
        cuda_libraries ==
            IF UseCudaApi(lib, use_cuda_api)
            THEN CASE api.tag = "None" -> Err("GpuUnavailable")
                   [] api.tag = "Hip" -> Ok(<<"amdhip64", "c10_hip", "torch_hip">>)
                   [] api.tag = "Cuda" -> Ok(<<"cudart", "c10_cuda", "torch_cuda">>)
                   [] api.tag = "CudaSplit" ->
                        Ok(<<"cudart", "c10_cuda", "torch_cuda_cu", "torch_cuda_cpp">>)
            ELSE Ok(<<>>)
        target == Deref("TARGET")
        gomp ==
            IF IsSome(target)
               /\ ~TargetContains(Unwrap(target), "msvc")
               /\ ~TargetContains(Unwrap(target), "apple")
            THEN <<"gomp">> ELSE <<>>
    IN  IF ~cuda_libraries.ok THEN cuda_libraries
        ELSE Ok(<<"c10", "torch_cpu", "torch">> \o cuda_libraries.val
                \o (IF use_python THEN <<"torch_python">> ELSE <<>>) \o gomp)

\* Mutant: the Cuda variant links the runtime and torch_cuda but not c10_cuda.
libraries_no_c10_cuda(lib, use_cuda_api, use_python) ==
    LET api == lib.api
        cuda_libraries ==
            IF UseCudaApi(lib, use_cuda_api)
            THEN CASE api.tag = "None" -> Err("GpuUnavailable")
                   [] api.tag = "Hip" -> Ok(<<"amdhip64", "c10_hip", "torch_hip">>)
                   [] api.tag = "Cuda" -> Ok(<<"cudart", "torch_cuda">>)
                   [] api.tag = "CudaSplit" ->
                        Ok(<<"cudart", "c10_cuda", "torch_cuda_cu", "torch_cuda_cpp">>)
            ELSE Ok(<<>>)
        target == Deref("TARGET")
        gomp ==
            IF IsSome(target)
               /\ ~TargetContains(Unwrap(target), "msvc")
               /\ ~TargetContains(Unwrap(target), "apple")
            THEN <<"gomp">> ELSE <<>>
    IN  IF ~cuda_libraries.ok THEN cuda_libraries
        ELSE Ok(<<"c10", "torch_cpu", "torch">>
                \o (IF use_python THEN <<"torch_python">> ELSE <<>>)
                \o cuda_libraries.val \o gomp)

libraries(lib, use_cuda_api, use_python) ==
    LET api == lib.api
        base_libraries == <<"c10", "torch_cpu", "torch">>
        python_library == IF use_python THEN <<"torch_python">> ELSE <<>>
        base_cuda_libraries == <<"cudart", "c10_cuda">>
        cuda_libraries ==
            IF UseCudaApi(lib, use_cuda_api)
            THEN CASE api.tag = "None" -> Err("GpuUnavailable")
                   [] api.tag = "Hip" -> Ok(<<"amdhip64", "c10_hip", "torch_hip">>)
                   [] api.tag = "Cuda" -> Ok(base_cuda_libraries \o <<"torch_cuda">>)
                   [] api.tag = "CudaSplit" ->
                        Ok(base_cuda_libraries \o <<"torch_cuda_cu", "torch_cuda_cpp">>)
            ELSE Ok(<<>>)
        target == Deref("TARGET")
        gomp ==
            IF IsSome(target)
               /\ ~TargetContains(Unwrap(target), "msvc")
               /\ ~TargetContains(Unwrap(target), "apple")
            THEN <<"gomp">> ELSE <<>>
    IN  IF ~cuda_libraries.ok THEN cuda_libraries
        ELSE Ok(base_libraries \o python_library \o cuda_libraries.val \o gomp)

\* ------------------------------------------- interpreter probe (probe.rs)

\* CONFIG.torch_version, the version this crate expects, as the text pieces
\* between '+' signs.
TORCH_VERSION == <<"2.0.0">>

\* str::trim on a version text whose blanks are " " pieces.
RECURSIVE TrimStart(_)
TrimStart(s) == IF s # <<>> /\ Head(s) = " " THEN TrimStart(Tail(s)) ELSE s

RECURSIVE TrimEnd(_)
TrimEnd(s) ==
    IF s # <<>> /\ s[Len(s)] = " " THEN TrimEnd(SubSeq(s, 1, Len(s) - 1)) ELSE s

Trim(s) == TrimEnd(TrimStart(s))

\* str::split_once('+'), first half: the text before the first '+'.
RECURSIVE BeforePlus(_)
BeforePlus(s) ==
    IF s = <<>> \/ Head(s) = "+" THEN <<>> ELSE <<Head(s)>> \o BeforePlus(Tail(s))

\* A variant of the check that compares the whole trimmed text.
check_pytorch_version_exact(version) ==
    IF Deref("LIBTORCH_BYPASS_VERSION_CHECK") THEN Ok("unit")
    ELSE IF Trim(version) # TORCH_VERSION THEN Err("VersionMismatch")
    ELSE Ok("unit")

\* check_pytorch_version: Ok when the check is bypassed, else the trimmed
\* text before its first '+' must be TORCH_VERSION.
check_pytorch_version(version) ==
    IF Deref("LIBTORCH_BYPASS_VERSION_CHECK") THEN Ok("unit")
    ELSE IF BeforePlus(Trim(version)) # TORCH_VERSION THEN Err("VersionMismatch")
    ELSE Ok("unit")

\* find_python_interpreter: "python" inside a virtual environment.
find_python_interpreter == IF IsSome(env["VIRTUAL_ENV"]) THEN "python" ELSE "python3"

\* The loop of probe_pytorch over the lines of the interpreter's stdout; acc
\* carries use_cxx11_abi, include_dirs, lib_dir and whether a version line
\* was checked.
RECURSIVE ParseLines(_, _)
ParseLines(lines, acc) ==
    IF lines = <<>> THEN Ok(acc)
    ELSE LET line == Head(lines) IN
         CASE line.key = "LIBTORCH_VERSION" ->
                IF check_pytorch_version(line.val).ok
                THEN ParseLines(Tail(lines), [acc EXCEPT !.checked = TRUE])
                ELSE Err("VersionMismatch")
           [] line.key = "LIBTORCH_CXX11" ->
                IF line.val = <<"True">>
                THEN ParseLines(Tail(lines), [acc EXCEPT !.use_cxx11_abi = Some(TRUE)])
                ELSE IF line.val = <<"False">>
                THEN ParseLines(Tail(lines), [acc EXCEPT !.use_cxx11_abi = Some(FALSE)])
                ELSE Err("ProbeScriptError")
           [] line.key = "LIBTORCH_INCLUDE" ->
                ParseLines(Tail(lines),
                           [acc EXCEPT !.include_dirs = Append(@, line.val)])
           [] line.key = "LIBTORCH_LIB" ->
                ParseLines(Tail(lines), [acc EXCEPT !.lib_dir = Some(line.val)])
           [] OTHER -> ParseLines(Tail(lines), acc)

\* probe_pytorch on the outcome `py` of running the interpreter: py.spawned
\* (Command::output returned Ok), py.success (the exit status, which the code
\* does not look at) and py.lines (stdout).
probe_pytorch(py) ==
    IF ~py.spawned THEN Err("ProbeScriptError")
    ELSE LET parsed == ParseLines(py.lines,
                                  [use_cxx11_abi |-> None, include_dirs |-> <<>>,
                                   lib_dir |-> None, checked |-> FALSE])
         IN  IF ~parsed.ok THEN parsed
             ELSE IF ~IsSome(parsed.val.use_cxx11_abi) THEN Err("ProbeScriptError")
             ELSE IF ~IsSome(parsed.val.lib_dir) THEN Err("ProbeScriptError")
             ELSE Ok([kind |-> "PyTorch",
                      include_dirs |-> parsed.val.include_dirs,
                      lib_dir |-> Unwrap(parsed.val.lib_dir),
                      use_cxx11_abi |-> Unwrap(parsed.val.use_cxx11_abi)])

\* Whether probe_pytorch reaches a version line, and so dereferences the
\* bypass flag.
RECURSIVE ReachesVersionLine(_)
ReachesVersionLine(lines) ==
    IF lines = <<>> THEN FALSE
    ELSE IF Head(lines).key = "LIBTORCH_VERSION" THEN TRUE
    ELSE IF Head(lines).key = "LIBTORCH_CXX11" /\ Head(lines).val \notin {<<"True">>, <<"False">>}
    THEN FALSE
    ELSE ReachesVersionLine(Tail(lines))

\* ------------------------------------------------- download (download.rs)

DownloadDir == Join(OUT_DIR, "libtorch")

\* download_libtorch on the outcome `dl` of the fetch and the extraction:
\* the extracted directory on success.
download_libtorch(dl) ==
    IF dl.ok THEN Ok(Join(DownloadDir, "libtorch")) ELSE Err("DownloadError")

\* The files an extraction leaves under OUT_DIR/libtorch.
Extracted(dl) == IF dl.ok THEN {DownloadDir \o e : e \in dl.entries} ELSE {}

\* ------------------------------------------------ the resolver (probe.rs)

\* The sources of find_or_download_libtorch_dir. Each result carries the
\* Probe, the sources consulted (in order), the expensive operations run and
\* the Lazy statics dereferenced.
SystemConsulted == IF target_os = "linux" THEN <<"Manual", "System">> ELSE <<"Manual">>

ManualSource ==
    [probe |-> Ok([kind |-> "Manual", dir |-> Unwrap(Deref("LIBTORCH"))]),
     consulted |-> <<"Manual">>, ran |-> <<>>, derefs |-> {"LIBTORCH"}]

SystemSource ==
    [probe |-> Ok([kind |-> "System", dir |-> UsrDir]),
     consulted |-> <<"Manual", "System">>, ran |-> <<>>, derefs |-> {"LIBTORCH"}]

\* A failure of probe_pytorch is returned by the `?`: the download is not tried.
PyTorchSource(py) ==
    [probe |-> probe_pytorch(py),
     consulted |-> SystemConsulted \o <<"PyTorch">>, ran |-> <<"python">>,
     derefs |-> {"LIBTORCH", "LIBTORCH_USE_PYTORCH"}
                \cup (IF py.spawned /\ ReachesVersionLine(py.lines)
                      THEN {"LIBTORCH_BYPASS_VERSION_CHECK"} ELSE {})]

DownloadSource(dl) ==
    [probe |-> IF dl.ok
               THEN Ok([kind |-> "Download", dir |-> download_libtorch(dl).val])
               ELSE download_libtorch(dl),
     consulted |-> SystemConsulted \o <<"PyTorch", "Download">>, ran |-> <<"download">>,
     derefs |-> {"LIBTORCH", "LIBTORCH_USE_PYTORCH"}]

NoSource ==
    [probe |-> Err("NotFound"),
     consulted |-> SystemConsulted \o <<"PyTorch">>, ran |-> <<>>,
     derefs |-> {"LIBTORCH", "LIBTORCH_USE_PYTORCH"}]

\* Mutant: the system install is looked at before the LIBTORCH override.
find_or_download_system_first(py, dl) ==
    IF target_os = "linux" /\ SystemLibtorch \in files THEN SystemSource
    ELSE IF IsSome(Deref("LIBTORCH")) THEN ManualSource
    ELSE IF Deref("LIBTORCH_USE_PYTORCH") THEN PyTorchSource(py)
    ELSE IF feature_download THEN DownloadSource(dl)
    ELSE NoSource

\* find_or_download_libtorch_dir: the first applicable source in the order
\* Manual, System, PyTorch, Download.
find_or_download_libtorch_dir(py, dl) ==
    IF IsSome(Deref("LIBTORCH")) THEN ManualSource
    ELSE IF target_os = "linux" /\ SystemLibtorch \in files THEN SystemSource
    ELSE IF Deref("LIBTORCH_USE_PYTORCH") THEN PyTorchSource(py)
    ELSE IF feature_download THEN DownloadSource(dl)
    ELSE NoSource

\* probe_cxx11_abi: the override, else the platform default (macos: true;
\* linux: the sentinel file build.rs leaves in OUT_DIR).
AbiSentinel == Join(OUT_DIR, "use_cxx11_abi")

\* Mutant: the platform default is used, the override is not looked at.
probe_cxx11_abi_default_only ==
    IF target_os = "macos" THEN TRUE ELSE AbiSentinel \in files

probe_cxx11_abi ==
    IF IsSome(Deref("LIBTORCH_CXX11_ABI")) THEN Unwrap(Deref("LIBTORCH_CXX11_ABI"))
    ELSE IF target_os = "macos" THEN TRUE
    ELSE AbiSentinel \in files

\* The include directories of a libtorch directory.
BaseIncludeDirs(libtorch_dir, api) ==
    LET base == Join(libtorch_dir, "include") IN
    <<base,
      Join(Join(Join(Join(base, "torch"), "csrc"), "api"), "include"),
      Join(base, "TH"),
      Join(base, "THC")>>
    \o (IF is_hip(api) THEN <<Join(base, "thh")>> ELSE <<>>)

\* probe_libtorch_private: the body PROBE's initialiser runs. `fs` is the
\* filesystem the capability probe sees (after a download, with the extracted
\* files).
probe_libtorch_private(py, dl) ==
    LET found == find_or_download_libtorch_dir(py, dl)
        fs == IF found.ran = <<"download">> THEN files \cup Extracted(dl) ELSE files
    IN  IF ~found.probe.ok
        THEN [res |-> found.probe, consulted |-> found.consulted, ran |-> found.ran,
              derefs |-> found.derefs, fs |-> fs]
        ELSE LET probe == found.probe.val IN
             IF probe.kind = "PyTorch"
             THEN LET api == probe_cuda_api(fs, probe.lib_dir) IN
                  [res |-> Ok(Library(probe.include_dirs, probe.lib_dir, api,
                                      probe.use_cxx11_abi)),
                   consulted |-> found.consulted, ran |-> found.ran,
                   derefs |-> found.derefs \cup ApiDerefs(api), fs |-> fs]
             ELSE LET lib_dir == Join(probe.dir, "lib")
                      api == probe_cuda_api(fs, lib_dir)
                  IN  [res |-> Ok(Library(BaseIncludeDirs(probe.dir, api), lib_dir, api,
                                          probe_cxx11_abi)),
                       consulted |-> found.consulted, ran |-> found.ran,
                       derefs |-> found.derefs \cup {"LIBTORCH_CXX11_ABI"}
                                  \cup ApiDerefs(api),
                       fs |-> fs]

\* ------------------------------------------ host architectures (cuda.rs)

\* CONFIG.torch_cuda_arch_list: the architectures the crate is configured for.
ConfigArchList ==
    {[major |-> 7, minor |-> 5, with_ptx |-> FALSE],
     [major |-> 8, minor |-> 0, with_ptx |-> FALSE],
     [major |-> 8, minor |-> 6, with_ptx |-> FALSE]}

\* Ord for (u32, u32) and the derived Ord of CudaArch: lexicographic.
PairLeq(a, b) == a[1] < b[1] \/ (a[1] = b[1] /\ a[2] <= b[2])
ArchLeq(a, b) ==
    \/ a.major < b.major
    \/ a.major = b.major /\ a.minor < b.minor
    \/ a.major = b.major /\ a.minor = b.minor /\ (a.with_ptx => b.with_ptx)

\* MAX_CUDA_ARCH: (major, minor) of the greatest configured architecture.
MAX_CUDA_ARCH ==
    LET max == CHOOSE a \in ConfigArchList : \A b \in ConfigArchList : ArchLeq(b, a)
    IN  <<max.major, max.minor>>

\* A variant of the minimum that takes each component's minimum.
PairMin_componentwise(a, b) ==
    <<IF a[1] <= b[1] THEN a[1] ELSE b[1], IF a[2] <= b[2] THEN a[2] ELSE b[2]>>

\* cmp::min on capability pairs.
PairMin(a, b) == IF PairLeq(a, b) THEN a ELSE b

\* A variant of the set that keeps every occurrence.
IndexSet_keep_all(s, seen) == s

\* IndexSet::from_iter: the first occurrence of each element, in order.
RECURSIVE IndexSet(_, _)
IndexSet(s, seen) ==
    IF s = <<>> THEN <<>>
    ELSE IF Head(s) \in seen THEN IndexSet(Tail(s), seen)
         ELSE <<Head(s)>> \o IndexSet(Tail(s), seen \cup {Head(s)})

\* Vec::sort of CudaArch values: insertion into an ascending sequence.
RECURSIVE InsertArch(_, _)
InsertArch(a, s) ==
    IF s = <<>> THEN <<a>>
    ELSE IF ArchLeq(a, Head(s)) THEN <<a>> \o s
         ELSE <<Head(s)>> \o InsertArch(a, Tail(s))

RECURSIVE SortArches(_)
SortArches(s) == IF s = <<>> THEN <<>> ELSE InsertArch(Head(s), SortArches(Tail(s)))

\* The initialiser of ARCHES on the outcome `en` of the driver calls:
\* "init_error" (rustacuda::init), "devices_error" (Device::devices),
\* "attribute_error" (get_attribute) or "ok". With no device the unwrap of
\* last_mut() panics.
host_arches(en) ==
    IF en = "init_error" THEN Err("CudaInitError")
    ELSE IF en = "devices_error" THEN Err("CudaDeviceError")
    ELSE IF en = "attribute_error" /\ devices # <<>> THEN Err("CudaDeviceError")
    ELSE LET clamped == [i \in 1..Len(devices) |-> PairMin(devices[i], MAX_CUDA_ARCH)]
             unique == IndexSet(clamped, {})
             sorted == SortArches([i \in 1..Len(unique) |->
                                     [major |-> unique[i][1], minor |-> unique[i][2],
                                      with_ptx |-> FALSE]])
         IN  IF sorted = <<>> THEN [ok |-> FALSE, err |-> "panic"]
             ELSE Ok([sorted EXCEPT ![Len(sorted)].with_ptx = TRUE])

\* ------------------------------------------------------------ the inputs

\* What the interpreter's probe script can print: the value of a line is the
\* text after its key, as a sequence of pieces.
VersionLine(v) == [key |-> "LIBTORCH_VERSION", val |-> v]
AbiLine(v) == [key |-> "LIBTORCH_CXX11", val |-> <<v>>]
IncludeLine == [key |-> "LIBTORCH_INCLUDE", val |-> PyIncludeDir]
LibLine == [key |-> "LIBTORCH_LIB", val |-> PyLibDir]

\* The output has a line with this key.
HasLine(lines, key) == \E i \in 1..Len(lines) : lines[i].key = key

PyLines ==
    {<<VersionLine(<<"2.0.0", "+", "cu117">>), AbiLine("True"), IncludeLine, LibLine>>,
     <<VersionLine(<<"2.1.0", "+", "cpu">>), AbiLine("True"), IncludeLine, LibLine>>,
     <<AbiLine("False"), IncludeLine, LibLine>>,
     <<VersionLine(<<"2.0.0">>), IncludeLine, LibLine>>,
     <<VersionLine(<<"2.0.0">>), AbiLine("False"), IncludeLine>>,
     <<AbiLine("yes"), LibLine>>,
     <<>>}

\* The outcomes of running the interpreter: it could not be started, or it
\* ran, exited with or without success, and printed some lines.
PyOutcomes ==
    {[spawned |-> FALSE, success |-> FALSE, lines |-> <<>>]}
    \cup {[spawned |-> TRUE, success |-> b, lines |-> l] : b \in BOOLEAN, l \in PyLines}

\* The outcomes of fetching and extracting the archive.
DlOutcomes ==
    {[ok |-> FALSE, entries |-> {}],
     [ok |-> TRUE, entries |-> {<<"libtorch", "lib", "libtorch_cpu.so">>}],
     [ok |-> TRUE, entries |-> {<<"libtorch", "lib", "libtorch_cpu.so">>,
                                <<"libtorch", "lib", "libtorch_cuda.so">>}]}

\* The outcomes of the CUDA driver calls of cuda_arches.
EnumOutcomes == {"init_error", "devices_error", "attribute_error", "ok"}

OpNames == {"python", "download", "enumerate", "probe_api"}

Bump(counts, names) == [n \in DOMAIN counts |-> IF n \in names THEN counts[n] + 1 ELSE counts[n]]

NoRun == [consulted |-> <<>>, ran |-> <<>>, res |-> None, py |-> None]

\* ------------------------------------------------------------ the actions

hostVars == <<target_os, os_type, feature_download, threads, devices>>
envVars == <<env, lazy, rerun, consumed>>

\* probe_libtorch, the cell already holds a Library: get_or_try_init returns it.
CallCached(t) ==
    /\ ~panicked /\ pc[t] = "idle" /\ calls.probe_libtorch < MaxCalls
    /\ IsSome(PROBE)
    /\ ret' = [ret EXCEPT ![t] = Some([fn |-> "probe_libtorch", res |-> Ok(Unwrap(PROBE))])]
    /\ calls' = [calls EXCEPT !.probe_libtorch = @ + 1]
    /\ UNCHANGED <<hostVars, envVars, files, pc, PROBE, ARCHES, ops, last, panicked, out>>

\* Mutant: the initialiser is entered without waiting for the thread inside it.
BeginInit_unguarded(t) ==
    /\ ~panicked /\ pc[t] = "idle" /\ calls.probe_libtorch < MaxCalls
    /\ ~IsSome(PROBE)
    /\ pc' = [pc EXCEPT ![t] = "probing"]
    /\ calls' = [calls EXCEPT !.probe_libtorch = @ + 1]
    /\ UNCHANGED <<hostVars, envVars, files, ret, PROBE, ARCHES, ops, last, panicked, out>>

\* probe_libtorch, the cell is empty: get_or_try_init runs the initialiser,
\* once no other thread is inside it.
BeginInit(t) ==
    /\ ~panicked /\ pc[t] = "idle" /\ calls.probe_libtorch < MaxCalls
    /\ ~IsSome(PROBE)
    /\ \A u \in threads : pc[u] # "probing"
    /\ pc' = [pc EXCEPT ![t] = "probing"]
    /\ calls' = [calls EXCEPT !.probe_libtorch = @ + 1]
    /\ UNCHANGED <<hostVars, envVars, files, ret, PROBE, ARCHES, ops, last, panicked, out>>

\* The initialiser probe_libtorch_private runs to its end: a success fills
\* the cell, a failure leaves it empty and is returned to the caller.
FinishInit(t) ==
    /\ ~panicked /\ pc[t] = "probing"
    /\ \E py \in PyOutcomes, dl \in DlOutcomes :
         \E run \in {probe_libtorch_private(py, dl)} :
         /\ PROBE' = IF run.res.ok THEN Some(run.res.val) ELSE PROBE
         /\ ret' = [ret EXCEPT ![t] = Some([fn |-> "probe_libtorch", res |-> run.res])]
         /\ lazy' = Forced(run.derefs)
         /\ rerun' = rerun \cup ReadBy(run.derefs)
         /\ consumed' = consumed \cup ReadBy(run.derefs)
                        \cup (IF run.ran = <<"python">> THEN {"VIRTUAL_ENV"} ELSE {})
         /\ files' = run.fs
         /\ ops' = Bump(ops, Range(run.ran)
                             \cup (IF run.res.ok THEN {"probe_api"} ELSE {}))
         /\ last' = [consulted |-> run.consulted, ran |-> run.ran,
                     res |-> Some(run.res),
                     py |-> IF run.ran = <<"python">>
                            THEN Some([spawned |-> py.spawned, success |-> py.success,
                                       version_line |-> py.spawned
                                                        /\ ReachesVersionLine(py.lines),
                                       abi_line |-> HasLine(py.lines, "LIBTORCH_CXX11"),
                                       lib_line |-> HasLine(py.lines, "LIBTORCH_LIB")])
                            ELSE None]
    /\ pc' = [pc EXCEPT ![t] = "idle"]
    /\ UNCHANGED <<hostVars, env, ARCHES, calls, panicked, out>>

\* Mutant: no cell, every call runs probe_libtorch_private.
probe_libtorch_uncached(t) ==
    \/ /\ ~panicked /\ pc[t] = "idle" /\ calls.probe_libtorch < MaxCalls
       /\ \A u \in threads : pc[u] # "probing"
       /\ pc' = [pc EXCEPT ![t] = "probing"]
       /\ calls' = [calls EXCEPT !.probe_libtorch = @ + 1]
       /\ UNCHANGED <<hostVars, envVars, files, ret, PROBE, ARCHES, ops, last, panicked, out>>
    \/ FinishInit(t)

probe_libtorch(t) == CallCached(t) \/ BeginInit(t) \/ FinishInit(t)

\* cuda_arches: the cached architectures, else the initialiser of ARCHES.
cuda_arches(t) ==
    /\ ~panicked /\ pc[t] = "idle" /\ calls.cuda_arches < MaxCalls
    /\ calls' = [calls EXCEPT !.cuda_arches = @ + 1]
    /\ IF IsSome(ARCHES)
       THEN /\ ret' = [ret EXCEPT ![t] = Some([fn |-> "cuda_arches",
                                               res |-> Ok(Unwrap(ARCHES))])]
            /\ UNCHANGED <<ARCHES, ops, panicked>>
       ELSE \E en \in EnumOutcomes :
              LET r == host_arches(en) IN
              /\ ops' = Bump(ops, {"enumerate"})
              /\ IF r.ok
                 THEN /\ ARCHES' = Some(r.val)
                      /\ ret' = [ret EXCEPT ![t] = Some([fn |-> "cuda_arches", res |-> r])]
                      /\ UNCHANGED panicked
                 ELSE IF r.err = "panic"
                 THEN /\ panicked' = TRUE
                      /\ UNCHANGED <<ARCHES, ret>>
                 ELSE /\ ret' = [ret EXCEPT ![t] = Some([fn |-> "cuda_arches", res |-> r])]
                      /\ UNCHANGED <<ARCHES, panicked>>
    /\ UNCHANGED <<hostVars, envVars, files, pc, PROBE, last, out>>

\* The capability probe applied to lib_dir on the files as they are now; out
\* keeps the artefacts it could see and the Api it gave, and the same of the
\* application before this one.
ApplyProbeCudaApi(lib_dir) ==
    /\ ~panicked
    /\ \E api \in {probe_cuda_api(files, lib_dir)} :
         /\ out' = Some([fn |-> "probe_cuda_api",
                         artefacts |-> {n \in ArtefactNames :
                                          probe_library_file(files, lib_dir, n)},
                         api |-> api,
                         before |-> IF IsSome(out)
                                    THEN Some([artefacts |-> Unwrap(out).artefacts,
                                               tag |-> Unwrap(out).api.tag])
                                    ELSE None])
         /\ lazy' = Forced(ApiDerefs(api))
         /\ rerun' = rerun \cup ReadBy(ApiDerefs(api))
         /\ consumed' = consumed \cup ReadBy(ApiDerefs(api))
    /\ UNCHANGED <<hostVars, env, files, pc, ret, PROBE, ARCHES, ops, last, calls,
                   panicked>>

\* Library::include_paths on the resolved Library.
CallIncludePaths(use_cuda_api) ==
    /\ ~panicked /\ IsSome(PROBE)
    /\ out' = Some([fn |-> "include_paths", use_cuda_api |-> use_cuda_api,
                    use_python |-> FALSE, lib |-> Unwrap(PROBE),
                    res |-> include_paths(Unwrap(PROBE), use_cuda_api)])
    /\ UNCHANGED <<hostVars, envVars, files, pc, ret, PROBE, ARCHES, ops, last, calls,
                   panicked>>

\* Library::link_paths on the resolved Library.
CallLinkPaths(use_cuda_api) ==
    /\ ~panicked /\ IsSome(PROBE)
    /\ out' = Some([fn |-> "link_paths", use_cuda_api |-> use_cuda_api,
                    use_python |-> FALSE, lib |-> Unwrap(PROBE),
                    res |-> link_paths(Unwrap(PROBE), use_cuda_api)])
    /\ UNCHANGED <<hostVars, envVars, files, pc, ret, PROBE, ARCHES, ops, last, calls,
                   panicked>>

\* Library::libraries on the resolved Library; TARGET is dereferenced once
\* the GPU libraries are decided.
CallLibraries(use_cuda_api, use_python) ==
    /\ ~panicked /\ IsSome(PROBE)
    /\ \E res \in {libraries(Unwrap(PROBE), use_cuda_api, use_python)} :
         /\ out' = Some([fn |-> "libraries", use_cuda_api |-> use_cuda_api,
                         use_python |-> use_python, lib |-> Unwrap(PROBE), res |-> res])
         /\ lazy' = IF res.ok THEN Forced({"TARGET"}) ELSE lazy
         /\ rerun' = IF res.ok THEN rerun \cup ReadBy({"TARGET"}) ELSE rerun
         /\ consumed' = IF res.ok THEN consumed \cup ReadBy({"TARGET"}) ELSE consumed
    /\ UNCHANGED <<hostVars, env, files, pc, ret, PROBE, ARCHES, ops, last, calls,
                   panicked>>

\* The world changes under the process: a file appears or disappears, a
\* variable of the environment is set or unset.
TouchFile(f) ==
    /\ ~panicked
    /\ files' = IF f \in files THEN files \ {f} ELSE files \cup {f}
    /\ UNCHANGED <<hostVars, envVars, pc, ret, PROBE, ARCHES, ops, last, calls,
                   panicked, out>>

SetEnv(name, value) ==
    /\ ~panicked
    /\ env[name] # value
    /\ env' = [env EXCEPT ![name] = value]
    /\ UNCHANGED <<hostVars, lazy, rerun, consumed, files, pc, ret, PROBE, ARCHES,
                   ops, last, calls, panicked, out>>

\* ------------------------------------------------- the resolver's process

LinuxTarget == <<"x86_64", "unknown", "linux", "gnu">>
AppleTarget == <<"aarch64", "apple", "darwin">>

\* The process right after start: nothing dereferenced, nothing cached.
InitProcess ==
    /\ lazy = [n \in LazyNames |-> None]
    /\ rerun = {}
    /\ consumed = {}
    /\ pc = [t \in threads |-> "idle"]
    /\ ret = [t \in threads |-> None]
    /\ PROBE = None
    /\ ARCHES = None
    /\ ops = [n \in OpNames |-> 0]
    /\ last = NoRun
    /\ calls = [probe_libtorch |-> 0, cuda_arches |-> 0]
    /\ panicked = FALSE
    /\ out = None

Unset == [n \in EnvNames |-> None]

\* The environments of the resolver's specification: every combination of
\* the variables that select the source, with and without a CUDA home, and
\* the ones with a ROCm home where the interpreter or the download is the
\* source.
ResolverEnvs ==
    {[Unset EXCEPT !["LIBTORCH"] = a, !["LIBTORCH_USE_PYTORCH"] = b,
                   !["LIBTORCH_BYPASS_VERSION_CHECK"] = c, !["CUDA_HOME"] = d] :
        a \in {None, Some(OverrideDir)}, b \in {None, Some("1"), Some("0")},
        c \in {None, Some("1")}, d \in {None, Some(CudaDir)}}
    \cup
    {[Unset EXCEPT !["LIBTORCH_USE_PYTORCH"] = b, !["CUDA_HOME"] = d,
                   !["ROCM_HOME"] = Some(RocmDir)] :
        b \in {None, Some("1")}, d \in {None, Some(CudaDir)}}

\* The files that come and go in the resolver's specification.
ResolverFiles ==
    {SystemLibtorch,
     Join(Join(OverrideDir, "lib"), "libtorch_cuda.so"),
     Join(PyLibDir, "libtorch_hip.so")}

Init ==
    /\ target_os \in {"linux", "macos"}
    /\ os_type = IF target_os = "linux" THEN "Ubuntu" ELSE "Macos"
    /\ feature_download \in BOOLEAN
    /\ env \in ResolverEnvs
    /\ files = {}
    /\ threads = {1}
    /\ devices = <<>>
    /\ InitProcess

Next ==
    \/ \E t \in threads : probe_libtorch(t)
    \/ \E f \in ResolverFiles : TouchFile(f)
    \/ \E v \in {None, Some(OverrideDir)} : SetEnv("LIBTORCH", v)

Spec == Init /\ [][Next]_vars

\* ---------------------------------------------- the resolver's properties

\* Thread t leaves the initialiser in this step; its result is in ret'.
Finishes(t) == pc[t] = "probing" /\ pc'[t] = "idle"
Returned(t) == Unwrap(ret'[t]).res

\* The applicability of the sources, as the resolver sees it.
ManualApplies == IsSome(Deref("LIBTORCH"))
SystemApplies == target_os = "linux" /\ SystemLibtorch \in files
InterpreterApplies == Deref("LIBTORCH_USE_PYTORCH")

\* The lib directory each source leads to.
ManualLib == Join(Unwrap(Deref("LIBTORCH")), "lib")
SystemLib == Join(UsrDir, "lib")
DownloadLib == Join(Join(DownloadDir, "libtorch"), "lib")

NoPython == ops'["python"] = ops["python"]
NoDownload == ops'["download"] = ops["download"]
OnePython == ops'["python"] = ops["python"] + 1
OneDownload == ops'["download"] = ops["download"] + 1

\* C1: the resolver takes the first applicable source in the order Manual
\* (LIBTORCH set, no existence check), System (linux and /usr/lib/libtorch.so
\* exists), interpreter probe (LIBTORCH_USE_PYTORCH set), Download (feature
\* on); a source that succeeds leaves the later ones untouched (no
\* interpreter subprocess, no download); with no applicable source the
\* result is the not-found error.
C1_SourceOrder ==
    [][\A t \in threads : Finishes(t) =>
         /\ ManualApplies =>
              /\ Returned(t).ok /\ Returned(t).val.lib_dir = ManualLib
              /\ NoPython /\ NoDownload
         /\ ~ManualApplies /\ SystemApplies =>
              /\ Returned(t).ok /\ Returned(t).val.lib_dir = SystemLib
              /\ NoPython /\ NoDownload
         /\ ~ManualApplies /\ ~SystemApplies /\ InterpreterApplies =>
              /\ OnePython
              /\ Returned(t).ok => Returned(t).val.lib_dir = PyLibDir /\ NoDownload
         /\ ~ManualApplies /\ ~SystemApplies /\ ~InterpreterApplies /\ feature_download =>
              /\ NoPython /\ OneDownload
              /\ Returned(t).ok => Returned(t).val.lib_dir = DownloadLib
         /\ ~ManualApplies /\ ~SystemApplies /\ ~InterpreterApplies /\ ~feature_download =>
              /\ Returned(t) = Err("NotFound")
              /\ NoPython /\ NoDownload
    ]_vars

\* C1 witness: the system install was taken although the interpreter probe
\* and the download were both available, and neither ran.
C1_Witness ==
    /\ IsSome(PROBE) /\ Unwrap(PROBE).lib_dir = SystemLib
    /\ lazy["LIBTORCH"] = Some(None)
    /\ env["LIBTORCH_USE_PYTORCH"] = Some("1") /\ feature_download
    /\ ops["python"] = 0 /\ ops["download"] = 0

\* C2 (as claimed): when the interpreter probe is the source and fails, and the
\* download is permitted, the resolver goes on to the download.
C2_FailedProbeAdvances ==
    [][\A t \in threads :
         (/\ Finishes(t)
          /\ ~ManualApplies /\ ~SystemApplies /\ InterpreterApplies /\ feature_download
          /\ OnePython
          /\ ~(Returned(t).ok /\ Returned(t).val.lib_dir = PyLibDir))
         => OneDownload
    ]_vars

\* C3: once PROBE holds a Library, every call of probe_libtorch returns that
\* Library, and nothing is probed again: no interpreter, no download, no
\* artefact check, no Lazy dereferenced; the cell keeps its value whatever
\* happens to the files and the environment.
C3_Memoized ==
    [][IsSome(PROBE) =>
         /\ PROBE' = PROBE
         /\ ops' = ops
         /\ lazy' = lazy
         /\ \A t \in threads :
              calls'.probe_libtorch # calls.probe_libtorch /\ pc[t] = "idle" =>
                ret'[t] = Some([fn |-> "probe_libtorch", res |-> Ok(Unwrap(PROBE))])
    ]_vars

\* C3 witness: a second call returned the cached Cuda library found through
\* LIBTORCH, although the artefact has since gone and LIBTORCH was unset.
C3_Witness ==
    /\ IsSome(PROBE) /\ calls.probe_libtorch = 2 /\ ops["probe_api"] = 1
    /\ ret[1] = Some([fn |-> "probe_libtorch", res |-> Ok(Unwrap(PROBE))])
    /\ Unwrap(PROBE).api.tag = "Cuda"
    /\ Join(Unwrap(PROBE).lib_dir, "libtorch_cuda.so") \notin files
    /\ env["LIBTORCH"] = None

\* A toolkit home is configured and its runtime artefact is in lib_dir: the
\* HIP runtime for ROCm; the monolithic runtime or both split modules for
\* CUDA. Artefacts carry the target's library file name.
ArtefactIn(fs, lib_dir, name) == target_os = "linux" /\ Join(lib_dir, SoName(name)) \in fs

PairPresent(fs, lib_dir) ==
    \/ IsSome(Deref("ROCM_HOME")) /\ ArtefactIn(fs, lib_dir, "torch_hip")
    \/ /\ IsSome(Deref("CUDA_HOME"))
       /\ \/ ArtefactIn(fs, lib_dir, "torch_cuda")
          \/ ArtefactIn(fs, lib_dir, "torch_cuda_cu")
             /\ ArtefactIn(fs, lib_dir, "torch_cuda_cpp")

\* C8: the Api of a resolved Library is None exactly when no pair (toolkit
\* home, matching artefact) is present; a missing artefact or home never
\* turns a located library into an error: whenever Manual or System applies
\* the resolution succeeds, and the only errors are those of the sources.
C8_NoneIffNoPair ==
    [][\A t \in threads : Finishes(t) =>
         /\ (ManualApplies \/ SystemApplies) => Returned(t).ok
         /\ ~Returned(t).ok =>
              Returned(t).err \in {"NotFound", "ProbeScriptError", "VersionMismatch",
                                   "DownloadError"}
         /\ Returned(t).ok =>
              (Returned(t).val.api.tag = "None"
                 <=> ~PairPresent(files', Returned(t).val.lib_dir))
    ]_vars

\* C8 witness: CUDA home configured, artefact missing: resolved, Api None.
C8_Witness ==
    /\ IsSome(PROBE) /\ Unwrap(PROBE).api.tag = "None"
    /\ lazy["CUDA_HOME"] = Some(Some(CudaDir))
    /\ Join(Unwrap(PROBE).lib_dir, "libtorch_cuda.so") \notin files

\* ------------------------------------- memoization across both registries

\* A process that calls probe_libtorch and cuda_arches, with the interpreter
\* probe or the download as the source of libtorch.
InitMemo ==
    /\ target_os = "linux"
    /\ os_type = "Ubuntu"
    /\ feature_download \in BOOLEAN
    /\ env \in {[Unset EXCEPT !["LIBTORCH_USE_PYTORCH"] = b, !["CUDA_HOME"] = d] :
                  b \in {None, Some("1")}, d \in {None, Some(CudaDir)}}
    /\ files = {}
    /\ threads = {1}
    /\ devices \in {<<>>, <<<<8, 6>>>>, <<<<9, 0>>, <<7, 5>>>>}
    /\ InitProcess

NextMemo ==
    \/ \E t \in threads : probe_libtorch(t)
    \/ \E t \in threads : cuda_arches(t)

SpecMemo == InitMemo /\ [][NextMemo]_vars

\* C4 (as claimed): every expensive operation (interpreter subprocess,
\* download, device enumeration) runs at most once in a process, also when
\* the first call failed.
C4_AtMostOnce ==
    /\ ops["python"] <= 1
    /\ ops["download"] <= 1
    /\ ops["enumerate"] <= 1

\* ------------------------------------------------- concurrent resolution

\* Two threads resolve libtorch through the interpreter probe while the
\* CUDA artefact of the interpreter's lib directory comes and goes.
InitThreads ==
    /\ target_os = "linux"
    /\ os_type = "Ubuntu"
    /\ feature_download = FALSE
    /\ env \in {[Unset EXCEPT !["LIBTORCH_USE_PYTORCH"] = Some("1"), !["CUDA_HOME"] = d,
                              !["LIBTORCH_BYPASS_VERSION_CHECK"] = c] :
                  c \in {None, Some("1")}, d \in {None, Some(CudaDir)}}
    /\ files = {}
    /\ threads = {1, 2}
    /\ devices = <<>>
    /\ InitProcess

NextThreads ==
    \/ \E t \in threads : probe_libtorch(t)
    \/ TouchFile(Join(PyLibDir, "libtorch_cuda.so"))

SpecThreads == InitThreads /\ [][NextThreads]_vars

\* The callers whose last call of probe_libtorch returned a Library.
Succeeded(t) ==
    /\ IsSome(ret[t])
    /\ Unwrap(ret[t]).fn = "probe_libtorch"
    /\ Unwrap(ret[t]).res.ok

\* C5: with concurrent callers at most one thread is inside the resolution
\* body at a time; every caller that returned success holds the Library the
\* cell holds (the first successful result); the cell's value is never
\* replaced.
C5_OneInitialiser ==
    /\ [](Cardinality({t \in threads : pc[t] = "probing"}) <= 1)
    /\ [](\A t \in threads :
            Succeeded(t) => IsSome(PROBE) /\ Unwrap(ret[t]).res.val = Unwrap(PROBE))
    /\ [][IsSome(PROBE) => PROBE' = PROBE]_vars

\* C5 witness: both threads returned the same Library, the one the first
\* successful initialiser stored, although its CUDA artefact is gone since.
C5_Witness ==
    /\ Succeeded(1) /\ Succeeded(2)
    /\ Unwrap(ret[1]).res.val = Unwrap(ret[2]).res.val
    /\ Unwrap(PROBE).api.tag = "Cuda"
    /\ Join(PyLibDir, "libtorch_cuda.so") \notin files

\* ------------------------------------------------- capability detection

\* The lib directory the capability probe is applied to.
ApiLibDir == Join(OverrideDir, "lib")

\* The artefact files of ApiLibDir, under their linux names.
ApiFiles == {Join(ApiLibDir, SoName(n)) : n \in ArtefactNames}

\* probe_cuda_api applied again and again while artefacts come and go, for
\* every combination of configured homes, on a target that names artefacts
\* and on one that does not.
InitApi ==
    /\ target_os \in {"linux", "macos"}
    /\ os_type = IF target_os = "linux" THEN "Ubuntu" ELSE "Macos"
    /\ feature_download = FALSE
    /\ \E cuda \in {"unset", "CUDA_HOME", "CUDA_PATH"},
          rocm \in {None, Some(RocmDir)}, cudnn \in {None, Some(CudnnDir)} :
         env = [Unset EXCEPT
                  !["CUDA_HOME"] = IF cuda = "CUDA_HOME" THEN Some(CudaDir) ELSE None,
                  !["CUDA_PATH"] = IF cuda = "CUDA_PATH" THEN Some(CudaAltDir) ELSE None,
                  !["ROCM_HOME"] = rocm,
                  !["CUDNN_HOME"] = cudnn]
    /\ files = {}
    /\ threads = {1}
    /\ devices = <<>>
    /\ InitProcess

NextApi ==
    \/ ApplyProbeCudaApi(ApiLibDir)
    \/ \E f \in ApiFiles : TouchFile(f)

SpecApi == InitApi /\ [][NextApi]_vars

\* The last application of probe_cuda_api is recorded in `out`.
ApiOut(o) == IsSome(o) /\ Unwrap(o).fn = "probe_cuda_api"

SplitArtefacts == {"torch_cuda_cu", "torch_cuda_cpp"}

\* What the CUDA branch alone decides from the artefacts.
CudaBranchTag(artefacts) ==
    IF ~IsSome(Deref("CUDA_HOME")) THEN "None"
    ELSE IF SplitArtefacts \subseteq artefacts THEN "CudaSplit"
    ELSE IF "torch_cuda" \in artefacts THEN "Cuda"
    ELSE "None"

\* C6: probe_cuda_api gives Hip exactly when a ROCm home is configured and
\* the torch_hip artefact is in the lib directory, whatever CUDA home and CUDA
\* artefacts there are; otherwise (so also with ROCm configured and torch_hip
\* absent) the result is what the CUDA branch decides on its own. An artefact
\* is the file the target's naming gives; a target other than linux names none.
C6_HipFirst ==
    ApiOut(out) =>
      LET o == Unwrap(out) IN
      /\ o.api.tag = "Hip" <=> (IsSome(Deref("ROCM_HOME")) /\ "torch_hip" \in o.artefacts)
      /\ o.api.tag = "Hip" =>
           /\ o.api.rocm_home = Unwrap(Deref("ROCM_HOME"))
           /\ o.api.miopen_home = Join(Unwrap(Deref("ROCM_HOME")), "miopen")
      /\ o.api.tag # "Hip" => o.api.tag = CudaBranchTag(o.artefacts)

\* C6 witness: Hip was chosen with a CUDA home configured and every CUDA
\* artefact present.
C6_Witness ==
    /\ ApiOut(out)
    /\ Unwrap(out).api.tag = "Hip"
    /\ Unwrap(out).artefacts = ArtefactNames
    /\ env["CUDA_HOME"] = Some(CudaDir)

\* C7: when the result is not Hip and a CUDA home is configured, it is
\* CudaSplit exactly when both split artefacts exist (torch_cuda or not), Cuda
\* exactly when torch_cuda exists and a split artefact is missing, and None
\* otherwise; the variant carries the CUDA home and the cuDNN home as
\* configured, which may be absent.
C7_SplitBeforeMonolithic ==
    ApiOut(out) =>
      LET o == Unwrap(out) IN
      (o.api.tag # "Hip" /\ IsSome(Deref("CUDA_HOME"))) =>
        /\ o.api.tag \in {"CudaSplit", "Cuda", "None"}
        /\ o.api.tag = "CudaSplit" <=> SplitArtefacts \subseteq o.artefacts
        /\ o.api.tag = "Cuda" <=>
             ("torch_cuda" \in o.artefacts /\ ~(SplitArtefacts \subseteq o.artefacts))
        /\ o.api.tag \in {"CudaSplit", "Cuda"} =>
             /\ DOMAIN o.api = {"tag", "cuda_home", "cudnn_home"}
             /\ o.api.cuda_home = Unwrap(Deref("CUDA_HOME"))
             /\ o.api.cudnn_home = Deref("CUDNN_HOME")

\* C7 witness: CudaSplit with the monolithic runtime present too and no cuDNN
\* home.
C7_Witness ==
    /\ ApiOut(out)
    /\ Unwrap(out).api.tag = "CudaSplit"
    /\ Unwrap(out).artefacts = {"torch_cuda", "torch_cuda_cu", "torch_cuda_cpp"}
    /\ Unwrap(out).api.cudnn_home = None

\* C9: between two applications of probe_cuda_api in one process (the homes
\* are fixed by then), if artefacts were only added, a GPU variant does not
\* fall back to None; adding torch_cuda with a CUDA home configured turns
\* None into Cuda, and adding torch_hip with a ROCm home configured turns None
\* into Hip.
C9_Monotonic ==
    [][(ApiOut(out) /\ ApiOut(out')
        /\ Unwrap(out).artefacts \subseteq Unwrap(out').artefacts) =>
         /\ Unwrap(out).api.tag # "None" => Unwrap(out').api.tag # "None"
         /\ (/\ Unwrap(out).api.tag = "None"
             /\ IsSome(Deref("CUDA_HOME"))
             /\ Unwrap(out').artefacts = Unwrap(out).artefacts \cup {"torch_cuda"})
            => Unwrap(out').api.tag = "Cuda"
         /\ (/\ Unwrap(out).api.tag = "None"
             /\ IsSome(Deref("ROCM_HOME"))
             /\ Unwrap(out').artefacts = Unwrap(out).artefacts \cup {"torch_hip"})
            => Unwrap(out').api.tag = "Hip"
    ]_vars

\* C9 witness: an application gave None with a CUDA home configured, then
\* torch_cuda was added next to a lone split module, and the next application
\* gave Cuda.
C9_Witness ==
    /\ ApiOut(out)
    /\ Unwrap(out).api.tag = "Cuda"
    /\ Unwrap(out).artefacts = {"torch_cuda", "torch_cuda_cu"}
    /\ Unwrap(out).before = Some([artefacts |-> {"torch_cuda_cu"}, tag |-> "None"])

\* ---------------------------------------------- the accessors of a Library

MsvcTarget == <<"x86_64", "pc", "windows", "msvc">>

\* The lib64 and lib directories of the CUDA and cuDNN homes.
ToolkitLibDirs ==
    {Join(CudaDir, "lib64"), Join(CudaDir, "lib"),
     Join(CudnnDir, "lib64"), Join(CudnnDir, "lib")}

\* The artefacts of an install, by name: none, HIP, monolithic CUDA, split CUDA.
InstallArtefacts ==
    {{}, {"torch_hip"}, {"torch_cuda"}, {"torch_cuda_cu", "torch_cuda_cpp"}}

\* The world of a process that resolves libtorch through LIBTORCH (manual) or
\* through /usr/lib (system) and then asks the Library for its paths and
\* libraries.
LibWorld(manual, cuda, cudnn, rocm, target, artefacts, dirs) ==
    /\ env = [Unset EXCEPT !["LIBTORCH"] = IF manual THEN Some(OverrideDir) ELSE None,
                           !["CUDA_HOME"] = cuda, !["CUDNN_HOME"] = cudnn,
                           !["ROCM_HOME"] = rocm, !["TARGET"] = target]
    /\ files = (IF manual THEN {} ELSE {SystemLibtorch})
               \cup {Join(IF manual THEN Join(OverrideDir, "lib") ELSE Join(UsrDir, "lib"),
                          SoName(n)) : n \in artefacts}
               \cup {Join(IF manual THEN Join(OverrideDir, "lib") ELSE Join(UsrDir, "lib"),
                          "libtorch_cpu.so")}
               \cup dirs

\* Every combination of homes and installs on both targets; every layout of
\* the toolkit lib directories under a CUDA install; the target triples that
\* decide on gomp.
InitLib ==
    /\ target_os \in {"linux", "macos"}
    /\ os_type = IF target_os = "linux" THEN "Ubuntu" ELSE "Macos"
    /\ feature_download = FALSE
    /\ \/ \E manual \in BOOLEAN, cuda \in {None, Some(CudaDir)},
             cudnn \in {None, Some(CudnnDir)}, rocm \in {None, Some(RocmDir)},
             artefacts \in InstallArtefacts :
            LibWorld(manual, cuda, cudnn, rocm,
                     Some(IF target_os = "linux" THEN LinuxTarget ELSE AppleTarget),
                     artefacts, {Join(CudaDir, "lib64"), Join(CudnnDir, "lib")})
       \/ /\ target_os = "linux"
          /\ \E cudnn \in {None, Some(CudnnDir)}, dirs \in SUBSET ToolkitLibDirs :
               LibWorld(TRUE, Some(CudaDir), cudnn, None, Some(LinuxTarget),
                        {"torch_cuda"}, dirs)
       \/ /\ target_os = "linux"
          /\ \E target \in {None, Some(MsvcTarget)}, artefacts \in {{}, {"torch_cuda"}} :
               LibWorld(TRUE, Some(CudaDir), None, None, target, artefacts,
                        {Join(CudaDir, "lib64")})
    /\ threads = {1}
    /\ devices = <<>>
    /\ InitProcess

Requests == {None, Some(TRUE), Some(FALSE)}

NextLib ==
    \/ \E t \in threads : probe_libtorch(t)
    \/ \E use_cuda_api \in Requests : CallIncludePaths(use_cuda_api)
    \/ \E use_cuda_api \in Requests : CallLinkPaths(use_cuda_api)
    \/ \E use_cuda_api \in Requests, use_python \in BOOLEAN :
         CallLibraries(use_cuda_api, use_python)

SpecLib == InitLib /\ [][NextLib]_vars

\* The last accessor call is recorded in `out`.
AccessorOut ==
    IsSome(out) /\ Unwrap(out).fn \in {"include_paths", "link_paths", "libraries"}

\* The library names of the GPU runtimes, and the toolkit homes.
GpuLibraryNames ==
    {"cudart", "c10_cuda", "torch_cuda", "torch_cuda_cu", "torch_cuda_cpp",
     "amdhip64", "c10_hip", "torch_hip"}

ToolkitHomes == {CudaDir, CudaAltDir, CudnnDir, RocmDir}

IsPrefix(h, path) == Len(h) <= Len(path) /\ SubSeq(path, 1, Len(h)) = h

\* C10: on a Library whose api is None, include_paths(true), link_paths(true)
\* and libraries(true, _) return the GPU-unavailable error and nothing else
\* (no list); with the request false, on every Api variant, the three
\* accessors succeed and the list has no path under a toolkit home and no GPU
\* library name.
C10_RequestHonoured ==
    AccessorOut =>
      LET o == Unwrap(out) IN
      /\ (o.lib.api.tag = "None" /\ o.use_cuda_api = Some(TRUE)) =>
           o.res = Err("GpuUnavailable")
      /\ o.use_cuda_api = Some(FALSE) =>
           /\ o.res.ok
           /\ \A x \in Range(o.res.val) :
                IF o.fn = "libraries" THEN x \notin GpuLibraryNames
                ELSE \A h \in ToolkitHomes : ~IsPrefix(h, x)

\* C10 witness: libraries(true, true) on a Library with api None, resolved
\* with a CUDA home configured, returned the GPU-unavailable error.
C10_Witness ==
    /\ AccessorOut
    /\ Unwrap(out).fn = "libraries"
    /\ Unwrap(out).use_cuda_api = Some(TRUE) /\ Unwrap(out).use_python
    /\ Unwrap(out).lib.api.tag = "None"
    /\ lazy["CUDA_HOME"] = Some(Some(CudaDir))
    /\ Unwrap(out).res = Err("GpuUnavailable")

\* The accessor named fn applied to lib; libraries reads TARGET as it is.
Accessor(fn, lib, use_cuda_api, use_python) ==
    CASE fn = "include_paths" -> include_paths(lib, use_cuda_api)
      [] fn = "link_paths" -> link_paths(lib, use_cuda_api)
      [] fn = "libraries" -> libraries(lib, use_cuda_api, use_python)

\* C11: an accessor called with the request unset returns exactly what it
\* returns for the boolean is_cuda_api_available(): the result of true on a
\* GPU variant, the result of false on Api None; an unset request never
\* returns the GPU-unavailable error.
C11_UnsetMirrorsDetection ==
    AccessorOut =>
      LET o == Unwrap(out) IN
      o.use_cuda_api = None =>
        /\ o.res = Accessor(o.fn, o.lib, Some(is_cuda_api_available(o.lib)), o.use_python)
        /\ o.lib.api.tag = "None" =>
             o.res = Accessor(o.fn, o.lib, Some(FALSE), o.use_python)
        /\ o.lib.api.tag # "None" =>
             o.res = Accessor(o.fn, o.lib, Some(TRUE), o.use_python)
        /\ o.res # Err("GpuUnavailable")

\* C11 witness: link_paths with the request unset on a Cuda Library gave the
\* lib directory followed by the CUDA home's lib64, the result of true.
C11_Witness ==
    /\ AccessorOut
    /\ Unwrap(out).fn = "link_paths" /\ Unwrap(out).use_cuda_api = None
    /\ Unwrap(out).lib.api.tag = "Cuda"
    /\ Unwrap(out).res = Ok(<<Join(OverrideDir, "lib"), Join(CudaDir, "lib64")>>)

\* The request as the accessors read it: the boolean, or the detection.
GpuEnabled(o) ==
    IF o.use_cuda_api = None THEN o.lib.api.tag # "None" ELSE Unwrap(o.use_cuda_api)

\* The target is known and names neither msvc nor apple.
NeedsGomp ==
    /\ IsSome(Deref("TARGET"))
    /\ "msvc" \notin Range(Unwrap(Deref("TARGET")))
    /\ "apple" \notin Range(Unwrap(Deref("TARGET")))

\* C12: a successful libraries(use_gpu, use_python) is, in this order: c10,
\* torch_cpu, torch; torch_python exactly when use_python; when GPU is
\* enabled the names of the variant (Cuda: cudart, c10_cuda, torch_cuda;
\* CudaSplit: cudart, c10_cuda, torch_cuda_cu, torch_cuda_cpp; Hip: amdhip64,
\* c10_hip, torch_hip); gomp last exactly when the target is known and is
\* neither msvc nor apple.
C12_LibraryOrder ==
    (AccessorOut /\ Unwrap(out).fn = "libraries" /\ Unwrap(out).res.ok) =>
      LET o == Unwrap(out)
          gpu == IF ~GpuEnabled(o) THEN <<>>
                 ELSE CASE o.lib.api.tag = "Cuda" -> <<"cudart", "c10_cuda", "torch_cuda">>
                        [] o.lib.api.tag = "CudaSplit" ->
                             <<"cudart", "c10_cuda", "torch_cuda_cu", "torch_cuda_cpp">>
                        [] o.lib.api.tag = "Hip" -> <<"amdhip64", "c10_hip", "torch_hip">>
                        [] OTHER -> <<>>
      IN  /\ o.res.val = <<"c10", "torch_cpu", "torch">>
                         \o (IF o.use_python THEN <<"torch_python">> ELSE <<>>)
                         \o gpu
                         \o (IF NeedsGomp THEN <<"gomp">> ELSE <<>>)
          /\ (GpuEnabled(o) /\ o.lib.api.tag = "Cuda") =>
               Range(o.res.val) \cap {"torch_cuda_cu", "torch_cuda_cpp"} = {}
          /\ (GpuEnabled(o) /\ o.lib.api.tag = "CudaSplit") =>
               "torch_cuda" \notin Range(o.res.val)
          /\ (GpuEnabled(o) /\ o.lib.api.tag = "Hip") =>
               Range(o.res.val) \cap {"cudart", "c10_cuda", "torch_cuda", "torch_cuda_cu",
                                      "torch_cuda_cpp"} = {}

\* C12 witness: libraries(true, true) on a CudaSplit Library for a linux
\* target gave all four groups.
C12_Witness ==
    /\ AccessorOut
    /\ Unwrap(out).fn = "libraries" /\ Unwrap(out).lib.api.tag = "CudaSplit"
    /\ Unwrap(out).res = Ok(<<"c10", "torch_cpu", "torch", "torch_python", "cudart",
                              "c10_cuda", "torch_cuda_cu", "torch_cuda_cpp", "gomp">>)

\* The end-to-end scenario: LIBTORCH names a directory holding
\* lib/libtorch_cuda.so and lib/libtorch_cpu.so, a CUDA home is configured, no
\* ROCm home; the Library was resolved and libraries(true, false) was called.
CudaScenario ==
    /\ env["LIBTORCH"] = Some(OverrideDir)
    /\ {Join(Join(OverrideDir, "lib"), "libtorch_cuda.so"),
        Join(Join(OverrideDir, "lib"), "libtorch_cpu.so")} \subseteq files
    /\ Join(Join(OverrideDir, "lib"), "libtorch_cuda_cu.so") \notin files
    /\ IsSome(Deref("CUDA_HOME")) /\ ~IsSome(Deref("ROCM_HOME"))
    /\ AccessorOut
    /\ Unwrap(out).fn = "libraries"
    /\ Unwrap(out).use_cuda_api = Some(TRUE) /\ ~Unwrap(out).use_python
    /\ Unwrap(out).lib = Unwrap(PROBE)

\* C13 (as claimed): in the scenario the Api is Cuda and libraries(true,
\* false) is exactly the five names c10, torch_cpu, torch, cudart, torch_cuda.
C13_FiveNames ==
    CudaScenario =>
      /\ Unwrap(out).lib.api.tag = "Cuda"
      /\ Unwrap(out).res = Ok(<<"c10", "torch_cpu", "torch", "cudart", "torch_cuda">>)

\* C13 (amended): in the scenario on a linux target the Api is Cuda and
\* libraries(true, false) is c10, torch_cpu, torch, cudart, c10_cuda,
\* torch_cuda in that order, followed by gomp exactly when the target is
\* known and is neither msvc nor apple; there is no torch_python and no
\* split-module name.
C13_CudaScenario ==
    (CudaScenario /\ target_os = "linux") =>
      /\ Unwrap(out).lib.api.tag = "Cuda"
      /\ Unwrap(out).res =
           Ok(<<"c10", "torch_cpu", "torch", "cudart", "c10_cuda", "torch_cuda">>
              \o (IF NeedsGomp THEN <<"gomp">> ELSE <<>>))
      /\ Range(Unwrap(out).res.val)
           \cap {"torch_python", "torch_cuda_cu", "torch_cuda_cpp"} = {}

\* C13 witness: the scenario on a linux target whose triple is not known to
\* the process: six names, no gomp.
C13_Witness ==
    /\ CudaScenario /\ target_os = "linux"
    /\ lazy["TARGET"] = Some(None)
    /\ Len(Unwrap(out).res.val) = 6

\* A toolkit home has a lib64 or a lib directory; the one link_paths takes.
HasLibDir(home) == Join(home, "lib64") \in files \/ Join(home, "lib") \in files
ChosenLibDir(home) ==
    IF Join(home, "lib64") \in files THEN Join(home, "lib64") ELSE Join(home, "lib")

\* C14: on a Cuda or CudaSplit Library link_paths(true) is the library's lib
\* directory, then the CUDA home's lib64 if it exists, else its lib, then the
\* cuDNN home's directory chosen the same way when a cuDNN home is
\* configured; when the CUDA home, or a configured cuDNN home, has neither
\* lib64 nor lib the call returns an error and no list.
C14_LinkPaths ==
    (/\ AccessorOut
     /\ Unwrap(out).fn = "link_paths" /\ Unwrap(out).use_cuda_api = Some(TRUE)
     /\ Unwrap(out).lib.api.tag \in {"Cuda", "CudaSplit"}) =>
      LET o == Unwrap(out)
          cuda == o.lib.api.cuda_home
          cudnn == o.lib.api.cudnn_home
          complete == HasLibDir(cuda) /\ (IsSome(cudnn) => HasLibDir(Unwrap(cudnn)))
      IN  /\ complete =>
               o.res = Ok(<<o.lib.lib_dir, ChosenLibDir(cuda)>>
                          \o (IF IsSome(cudnn) THEN <<ChosenLibDir(Unwrap(cudnn))>>
                              ELSE <<>>))
          /\ ~complete => ~o.res.ok /\ DOMAIN o.res = {"ok", "err"}

\* C14 witness: the CUDA home has lib64 and lib, the cuDNN home only lib:
\* link_paths(true) gave lib, cuda/lib64, cudnn/lib.
C14_Witness ==
    /\ AccessorOut
    /\ Unwrap(out).fn = "link_paths" /\ Unwrap(out).use_cuda_api = Some(TRUE)
    /\ {Join(CudaDir, "lib64"), Join(CudaDir, "lib"), Join(CudnnDir, "lib")} \subseteq files
    /\ Join(CudnnDir, "lib64") \notin files
    /\ Unwrap(out).res = Ok(<<Join(OverrideDir, "lib"), Join(CudaDir, "lib64"),
                              Join(CudnnDir, "lib")>>)

\* ---------------------------------------------------------- the ABI flag

\* A process that resolves libtorch from any of the four sources, with the
\* ABI override unset, "1", "0" or something else, while the sentinel file
\* and the system install come and go.
InitAbi ==
    /\ target_os \in {"linux", "macos"}
    /\ os_type = IF target_os = "linux" THEN "Ubuntu" ELSE "Macos"
    /\ feature_download \in BOOLEAN
    /\ env \in {[Unset EXCEPT !["LIBTORCH"] = a, !["LIBTORCH_USE_PYTORCH"] = b,
                              !["LIBTORCH_CXX11_ABI"] = c] :
                  a \in {None, Some(OverrideDir)}, b \in {None, Some("1")},
                  c \in {None, Some("1"), Some("0"), Some("yes")}}
    /\ files = {}
    /\ threads = {1}
    /\ devices = <<>>
    /\ InitProcess

NextAbi ==
    \/ \E t \in threads : probe_libtorch(t)
    \/ TouchFile(AbiSentinel)
    \/ TouchFile(SystemLibtorch)

SpecAbi == InitAbi /\ [][NextAbi]_vars

\* The override as LIBTORCH_CXX11_ABI gives it: "1" or "0".
AbiOverridden == IsSome(Deref("LIBTORCH_CXX11_ABI"))

\* C15 (as claimed): whenever LIBTORCH_CXX11_ABI is "1" or "0" the resolved
\* Library's use_cxx11_abi is that value, whichever source located it.
C15_OverrideWins ==
    [][\A t \in threads :
         (Finishes(t) /\ Returned(t).ok /\ AbiOverridden) =>
           Returned(t).val.use_cxx11_abi = Unwrap(Deref("LIBTORCH_CXX11_ABI"))
    ]_vars

\* C15 (amended): when the library was located by Manual, System or Download
\* and LIBTORCH_CXX11_ABI is "1" or "0", use_cxx11_abi is that value whatever
\* the platform default and the sentinel file say; when it was located by the
\* interpreter probe the override is not read at all and use_cxx11_abi is
\* what the interpreter reported.
C15_OverrideWinsOutsideInterpreter ==
    [][\A t \in threads :
         (Finishes(t) /\ Returned(t).ok) =>
           IF Returned(t).val.lib_dir = PyLibDir
           THEN lazy'["LIBTORCH_CXX11_ABI"] = lazy["LIBTORCH_CXX11_ABI"]
           ELSE /\ IsSome(lazy'["LIBTORCH_CXX11_ABI"])
                /\ AbiOverridden =>
                     Returned(t).val.use_cxx11_abi = Unwrap(Deref("LIBTORCH_CXX11_ABI"))
    ]_vars

\* C15 witness: on linux the override "1" gave use_cxx11_abi = TRUE to a
\* Library found by download, with no sentinel file.
C15_Witness ==
    /\ IsSome(PROBE) /\ Unwrap(PROBE).lib_dir = DownloadLib
    /\ target_os = "linux" /\ AbiSentinel \notin files
    /\ lazy["LIBTORCH_CXX11_ABI"] = Some(Some(TRUE))
    /\ Unwrap(PROBE).use_cxx11_abi

\* ------------------------------------------ architecture lists (cuda.rs)

\* A text is a sequence of pieces: a piece is one character, or the whole
\* name of an alias.
AsciiDigits == <<"0", "1", "2", "3", "4", "5", "6", "7", "8", "9">>
IsDigit(c) == \E i \in DOMAIN AsciiDigits : AsciiDigits[i] = c
DigitValue(c) == (CHOOSE i \in DOMAIN AsciiDigits : AsciiDigits[i] = c) - 1

Arch(major, minor, with_ptx) == [major |-> major, minor |-> minor, with_ptx |-> with_ptx]

\* CUDA_ARCH_ALIASES: the table of the bundled file, name -> architectures
\* in the file's order.
CUDA_ARCH_ALIASES ==
    [n \in {"Ampere", "Turing"} |->
       IF n = "Ampere" THEN <<Arch(8, 0, FALSE), Arch(8, 6, TRUE)>>
       ELSE <<Arch(7, 5, TRUE)>>]

\* HashMap::get on a token: the entry whose name is the whole token.
AliasGet(token) ==
    IF Len(token) = 1 /\ token[1] \in DOMAIN CUDA_ARCH_ALIASES
    THEN Some(CUDA_ARCH_ALIASES[token[1]])
    ELSE None

\* str::split: the pieces between the separators, empty ones included.
RECURSIVE Split(_, _)
Split(text, sep) ==
    IF \A i \in 1..Len(text) : text[i] # sep THEN <<text>>
    ELSE LET i == CHOOSE k \in 1..Len(text) :
                    text[k] = sep /\ \A j \in 1..(k - 1) : text[j] # sep
         IN  <<SubSeq(text, 1, i - 1)>> \o Split(SubSeq(text, i + 1, Len(text)), sep)

\* The length of the longest prefix of digits: what a greedy \d+ takes.
RECURSIVE DigitRun(_)
DigitRun(text) ==
    IF text # <<>> /\ IsDigit(Head(text)) THEN 1 + DigitRun(Tail(text)) ELSE 0

PtxSuffix == <<"+", "P", "T", "X">>

\* REGEX_CUDA_ARCH.captures: ^(\d+)\.(\d+)(\+PTX)?$ on the whole text; groups
\* 1 and 2 as written, and whether group 3 took part.
REGEX_CUDA_ARCH(text) ==
    LET n1 == DigitRun(text)
        rest1 == SubSeq(text, n1 + 1, Len(text))
        n2 == IF rest1 = <<>> THEN 0 ELSE DigitRun(Tail(rest1))
        rest2 == IF rest1 = <<>> THEN <<>> ELSE SubSeq(rest1, n2 + 2, Len(rest1))
    IN  IF n1 = 0 \/ rest1 = <<>> \/ Head(rest1) # "." \/ n2 = 0 THEN None
        ELSE IF rest2 # <<>> /\ rest2 # PtxSuffix THEN None
        ELSE Some([major |-> SubSeq(text, 1, n1),
                   minor |-> SubSeq(rest1, 2, n2 + 1),
                   ptx |-> rest2 = PtxSuffix])

\* u32::MAX in decimal.
U32MaxDigits == <<"4", "2", "9", "4", "9", "6", "7", "2", "9", "5">>

RECURSIVE StripZeros(_)
StripZeros(ds) ==
    IF Len(ds) > 1 /\ Head(ds) = "0" THEN StripZeros(Tail(ds)) ELSE ds

\* a <= b for digit strings of one length.
RECURSIVE DigitsLeq(_, _)
DigitsLeq(a, b) ==
    \/ a = <<>>
    \/ DigitValue(Head(a)) < DigitValue(Head(b))
    \/ Head(a) = Head(b) /\ DigitsLeq(Tail(a), Tail(b))

RECURSIVE DecimalValue(_)
DecimalValue(ds) ==
    IF ds = <<>> THEN 0
    ELSE 10 * DecimalValue(SubSeq(ds, 1, Len(ds) - 1)) + DigitValue(ds[Len(ds)])

\* str::parse::<u32> on a string of digits: the number, or the overflow
\* error when it is above u32::MAX.
ParseU32(ds) ==
    LET s == StripZeros(ds)
    IN  IF Len(s) > Len(U32MaxDigits)
           \/ (Len(s) = Len(U32MaxDigits) /\ ~DigitsLeq(s, U32MaxDigits))
        THEN Err("PosOverflow")
        ELSE Ok(DecimalValue(s))

\* CudaArch::from_str: the error for a text the pattern rejects; the two
\* numbers are unwrapped, so a number above u32::MAX panics.
from_str(text) ==
    LET cap == REGEX_CUDA_ARCH(text)
    IN  IF cap = None THEN Err("InvalidArchSpec")
        ELSE LET major == ParseU32(Unwrap(cap).major)
                 minor == ParseU32(Unwrap(cap).minor)
             IN  IF ~major.ok \/ ~minor.ok THEN [ok |-> FALSE, err |-> "panic"]
                 ELSE Ok(Arch(major.val, minor.val, Unwrap(cap).ptx))

\* What flat_map yields for one token: the alias's architectures, else the
\* one result of parsing the token.
TokenResults(token) ==
    LET list == AliasGet(token)
    IN  IF IsSome(list)
        THEN [i \in 1..Len(Unwrap(list)) |-> Ok(Unwrap(list)[i])]
        ELSE <<from_str(token)>>

RECURSIVE FlatMapTokens(_)
FlatMapTokens(tokens) ==
    IF tokens = <<>> THEN <<>>
    ELSE TokenResults(Head(tokens)) \o FlatMapTokens(Tail(tokens))

\* try_collect: the values when every result is Ok, else the first result
\* that is not (the results after it are never computed).
TryCollect(results) ==
    IF \A i \in 1..Len(results) : results[i].ok
    THEN Ok([i \in 1..Len(results) |-> results[i].val])
    ELSE results[CHOOSE i \in 1..Len(results) :
                   ~results[i].ok /\ \A j \in 1..(i - 1) : results[j].ok]

\* A variant of parse_list that keeps the first occurrence of each
\* architecture only.
parse_list_dedup(text) ==
    LET r == TryCollect(FlatMapTokens(Split(text, ";")))
    IN  IF r.ok THEN Ok(IndexSet(r.val, {})) ELSE r

\* CudaArch::parse_list.
parse_list(text) == TryCollect(FlatMapTokens(Split(text, ";")))

\* env.rs parse_cuda_arch_list: the same function on config.rs's CudaArch.
parse_cuda_arch_list(text) == TryCollect(FlatMapTokens(Split(text, ";")))

\* format!("{}", n) of a u32.
RECURSIVE Decimal(_)
Decimal(n) ==
    IF n < 10 THEN <<AsciiDigits[n + 1]>>
    ELSE Decimal(n \div 10) \o <<AsciiDigits[(n % 10) + 1]>>

\* Variants of nvcc_flag: one whose arch= names the real architecture for a
\* non-PTX entry, one that writes the minor number first.
nvcc_flag_sm_arch(arch) ==
    LET number == Decimal(arch.major) \o Decimal(arch.minor)
        code_kind == IF arch.with_ptx THEN "compute" ELSE "sm"
    IN  <<"-gencode=arch=", code_kind, "_">> \o number
          \o <<",code=", code_kind, "_">> \o number

nvcc_flag_minor_first(arch) ==
    LET number == Decimal(arch.minor) \o Decimal(arch.major)
        code_kind == IF arch.with_ptx THEN "compute" ELSE "sm"
    IN  <<"-gencode=arch=", "compute", "_">> \o number
          \o <<",code=", code_kind, "_">> \o number

\* CudaArch::nvcc_flag: the flag as a sequence of pieces, the digits one
\* piece each.
nvcc_flag(arch) ==
    LET number == Decimal(arch.major) \o Decimal(arch.minor)
        code_kind == IF arch.with_ptx THEN "compute" ELSE "sm"
    IN  <<"-gencode=arch=", "compute", "_">> \o number
          \o <<",code=", code_kind, "_">> \o number

\* The most tokens in a text.
MaxTokens == 2

\* The tokens the texts are made of: literals with and without the suffix,
\* with leading zeros and with a number above u32::MAX, the two aliases, and
\* tokens that are neither (empty, blanks around, lower-case suffix, a part
\* missing, an alias name with a blank after it).
TokenPool ==
    {<<"8", ".", "0">>, <<"8", ".", "6">>, <<"9", ".", "0", "+", "P", "T", "X">>,
     <<"1", "0", ".", "2">>, <<"0", "8", ".", "6">>, <<"8", ".", "0", "6">>,
     <<"4", "2", "9", "4", "9", "6", "7", "2", "9", "6", ".", "0">>,
     <<"Ampere">>, <<"Turing">>,
     <<>>, <<" ", "8", ".", "0">>, <<"8", ".", "0", " ">>,
     <<"8", ".", "0", "+", "p", "t", "x">>, <<"8">>, <<"8", ".">>, <<".", "0">>,
     <<"8", ".", "0", "+">>, <<"x">>, <<"Ampere", " ">>}

\* The tokens written one after the other with ';' between them.
RECURSIVE JoinTokens(_)
JoinTokens(tokens) ==
    IF Len(tokens) = 1 THEN tokens[1]
    ELSE tokens[1] \o <<";">> \o JoinTokens(Tail(tokens))

Texts == {JoinTokens(ts) : ts \in UNION {[1..n -> TokenPool] : n \in 1..MaxTokens}}

\* A call of one of the two parsers on a text, and nvcc_flag on each
\* architecture it returned, as the build does with an architecture list.
\* A call that panicked has res.err = "panic" and aborts the process. The
\* parsers keep no state: a behaviour is one call.
ApplyParseList(fn, text) ==
    /\ ~panicked /\ out = None
    /\ \E r \in {IF fn = "parse_list" THEN parse_list(text)
                 ELSE parse_cuda_arch_list(text)} :
         /\ out' = Some([fn |-> fn, text |-> text, res |-> r,
                         flags |-> IF r.ok
                                   THEN [i \in 1..Len(r.val) |-> nvcc_flag(r.val[i])]
                                   ELSE <<>>])
         /\ panicked' = (~r.ok /\ r.err = "panic")
    /\ UNCHANGED <<hostVars, envVars, files, threads, pc, ret, PROBE, ARCHES, devices,
                   ops, last, calls>>

CallParseList(text) == ApplyParseList("parse_list", text)
CallParseCudaArchList(text) == ApplyParseList("parse_cuda_arch_list", text)

InitArch ==
    /\ target_os = "linux"
    /\ os_type = "Ubuntu"
    /\ feature_download = FALSE
    /\ env = Unset
    /\ files = {}
    /\ threads = {1}
    /\ devices = <<>>
    /\ InitProcess

NextArch ==
    \/ \E text \in Texts : CallParseList(text)
    \/ \E text \in Texts : CallParseCudaArchList(text)

SpecArch == InitArch /\ [][NextArch]_vars

\* The last call was one of the parsers.
ParsedOut == IsSome(out) /\ Unwrap(out).fn \in {"parse_list", "parse_cuda_arch_list"}

\* A token of the grammar: an alias name, or digits, '.', digits and an
\* optional "+PTX", nothing before, between or after.
IsLiteral(token) ==
    \E i \in 1..Len(token) :
      /\ token[i] = "."
      /\ i > 1 /\ \A j \in 1..(i - 1) : IsDigit(token[j])
      /\ \E k \in (i + 1)..Len(token) :
           /\ \A j \in (i + 1)..k : IsDigit(token[j])
           /\ SubSeq(token, k + 1, Len(token)) \in {<<>>, PtxSuffix}
IsAlias(token) == \E n \in DOMAIN CUDA_ARCH_ALIASES : token = <<n>>

\* C16 (as claimed): a call of parse_list or parse_cuda_arch_list returns a
\* list only if every ';'-separated token of its text is an alias name or
\* MAJOR.MINOR[+PTX]; when some token is neither (an empty token, blanks, a
\* lower-case suffix) the call returns the invalid-architecture error.
C16_TokenGrammar ==
    ParsedOut =>
      LET o == Unwrap(out)
          tokens == Split(o.text, ";")
          good == \A i \in 1..Len(tokens) : IsAlias(tokens[i]) \/ IsLiteral(tokens[i])
      IN  /\ o.res.ok => good
          /\ ~good => o.res = Err("InvalidArchSpec")

\* ds is the decimal numeral of v: digits only, no leading zero.
IsNumeral(ds, v) ==
    /\ ds # <<>> /\ \A i \in 1..Len(ds) : IsDigit(ds[i])
    /\ StripZeros(ds) = ds
    /\ DecimalValue(ds) = v

ScenarioText == <<"8", ".", "0", ";", "9", ".", "0", "+", "P", "T", "X">>

WrittenMajor(token) == SubSeq(token, 1, DigitRun(token))
WrittenMinor(token) ==
    LET rest == SubSeq(token, DigitRun(token) + 2, Len(token))
    IN  SubSeq(rest, 1, DigitRun(rest))

\* The two version positions of a flag: after arch=compute_ and after the
\* code= kind.
VersionPositions(f) ==
    LET n == (Len(f) - 6) \div 2
    IN  <<SubSeq(f, 4, 3 + n), SubSeq(f, 7 + n, Len(f))>>

\* The last call parsed a text that is one literal token.
ParsedLiteral == ParsedOut /\ IsLiteral(Unwrap(out).text)

Semicolons(text) == {i \in 1..Len(text) : text[i] = ";"}

\* What the parser named fn returns on a text.
Parser(fn, text) ==
    IF fn = "parse_list" THEN parse_list(text) ELSE parse_cuda_arch_list(text)

\* C19: when the text of a call is A;B and the parser returns a list for A
\* and a list for B, the call returns the list for A followed by the list
\* for B; and when every token of the text is an alias name the call returns
\* the table's sequences one after the other, in the order of the tokens,
\* each as the table has it.
C19_Distributes ==
    ParsedOut =>
      LET o == Unwrap(out)
          tokens == Split(o.text, ";")
          RECURSIVE Expand(_)
          Expand(ts) == IF ts = <<>> THEN <<>>
                        ELSE CUDA_ARCH_ALIASES[Head(ts)[1]] \o Expand(Tail(ts))
      IN  /\ \A i \in Semicolons(o.text) :
               LET a == Parser(o.fn, SubSeq(o.text, 1, i - 1))
                   b == Parser(o.fn, SubSeq(o.text, i + 1, Len(o.text)))
               IN  (a.ok /\ b.ok) => o.res = Ok(a.val \o b.val)
          /\ (\A k \in 1..Len(tokens) : IsAlias(tokens[k])) => o.res = Ok(Expand(tokens))

\* C19 witness: "Ampere;Ampere" gave 8.0, 8.6+PTX, 8.0, 8.6+PTX.
C19_Witness ==
    /\ ParsedOut
    /\ Unwrap(out).text = <<"Ampere", ";", "Ampere">>
    /\ Unwrap(out).res = Ok(<<Arch(8, 0, FALSE), Arch(8, 6, TRUE),
                              Arch(8, 0, FALSE), Arch(8, 6, TRUE)>>)

\* --------------------------------------------- the ceiling (cuda.rs)

\* The compute capabilities a device can report here: below, at and above
\* the greatest configured architecture, in either component.
Capabilities == {<<7, 5>>, <<7, 9>>, <<8, 6>>, <<8, 9>>, <<9, 0>>}

\* A process that calls cuda_arches on a host with no, one or two devices.
InitHost ==
    /\ target_os = "linux"
    /\ os_type = "Ubuntu"
    /\ feature_download = FALSE
    /\ env = Unset
    /\ files = {}
    /\ threads = {1}
    /\ devices \in {<<>>} \cup {<<a>> : a \in Capabilities}
                   \cup {<<a, b>> : a, b \in Capabilities}
    /\ InitProcess

NextHost == \E t \in threads : cuda_arches(t)

SpecHost == InitHost /\ [][NextHost]_vars

\* The (major, minor) of the greatest entry of the configured list.
Ceiling ==
    CHOOSE p \in {<<a.major, a.minor>> : a \in ConfigArchList} :
      \A a \in ConfigArchList : PairLeq(<<a.major, a.minor>>, p)

\* The (major, minor) pairs of the architectures ARCHES holds.
ArchPairs == {<<Unwrap(ARCHES)[i].major, Unwrap(ARCHES)[i].minor>> :
                i \in 1..Len(Unwrap(ARCHES))}

\* C20: every architecture cuda_arches returns is at most the ceiling in
\* lexicographic order; a device above the ceiling contributes the ceiling,
\* a device at or below it contributes its own capability, and nothing else
\* is returned.
C20_Ceiling ==
    /\ IsSome(ARCHES) =>
         /\ \A p \in ArchPairs : PairLeq(p, Ceiling)
         /\ \A i \in 1..Len(devices) :
              IF PairLeq(devices[i], Ceiling) THEN devices[i] \in ArchPairs
              ELSE Ceiling \in ArchPairs
         /\ \A p \in ArchPairs :
              \E i \in 1..Len(devices) :
                \/ p = devices[i] /\ PairLeq(devices[i], Ceiling)
                \/ p = Ceiling /\ ~PairLeq(devices[i], Ceiling)
    /\ \A t \in threads :
         (IsSome(ret[t]) /\ Unwrap(ret[t]).fn = "cuda_arches" /\ Unwrap(ret[t]).res.ok)
           => ARCHES = Some(Unwrap(ret[t]).res.val)

\* C20 witness: devices of capability 9.0 and 7.9 with the ceiling 8.6 gave
\* 7.9 and 8.6.
C20_Witness ==
    /\ devices = <<<<9, 0>>, <<7, 9>>>> /\ Ceiling = <<8, 6>>
    /\ IsSome(ret[1]) /\ Unwrap(ret[1]).res.ok
    /\ ArchPairs = {<<7, 9>>, <<8, 6>>}

\* C21: a successful cuda_arches result is strictly ascending by
\* (major, minor), so no pair occurs twice, and with_ptx is true on its last
\* element and on no other.
C21_AscendingOnePtx ==
    IsSome(ARCHES) =>
      LET a == Unwrap(ARCHES) IN
      /\ a # <<>>
      /\ \A i \in 1..(Len(a) - 1) :
           /\ PairLeq(<<a[i].major, a[i].minor>>, <<a[i + 1].major, a[i + 1].minor>>)
           /\ <<a[i].major, a[i].minor>> # <<a[i + 1].major, a[i + 1].minor>>
      /\ \A i \in 1..Len(a) : a[i].with_ptx <=> i = Len(a)

\* C21 witness: devices of capability 9.0 and 8.9, both above the ceiling,
\* gave the one entry 8.6+PTX.
C21_Witness ==
    /\ devices = <<<<9, 0>>, <<8, 9>>>>
    /\ ARCHES = Some(<<Arch(8, 6, TRUE)>>)
    /\ IsSome(ret[1]) /\ Unwrap(ret[1]).res = Ok(<<Arch(8, 6, TRUE)>>)

\* C22 (as claimed): no failure of host detection aborts the process, and
\* on a host whose enumeration reports no device cuda_arches returns an
\* error value, never a list.
C22_HostErrorsReturned ==
    /\ ~panicked
    /\ \A t \in threads :
         (calls.cuda_arches > 0 /\ devices = <<>>) =>
           /\ IsSome(ret[t]) /\ Unwrap(ret[t]).fn = "cuda_arches"
           /\ ~Unwrap(ret[t]).res.ok

\* ------------------------------------------- the version check (probe.rs)

\* The most pieces in a reported version.
MaxPieces == 3

VersionPieces == {" ", "2.0.0", "2.1.0", "+", "cu117", "cpu"}

\* What an interpreter can report as its version.
VersionTexts == UNION {[1..n -> VersionPieces] : n \in 0..MaxPieces}

\* A call of check_pytorch_version: it dereferences the bypass flag first.
\* The check keeps nothing but the flag: a behaviour is one call.
CallCheckPytorchVersion(version) ==
    /\ ~panicked /\ out = None
    /\ out' = Some([fn |-> "check_pytorch_version", version |-> version,
                    res |-> check_pytorch_version(version)])
    /\ lazy' = Forced({"LIBTORCH_BYPASS_VERSION_CHECK"})
    /\ rerun' = rerun \cup ReadBy({"LIBTORCH_BYPASS_VERSION_CHECK"})
    /\ consumed' = consumed \cup ReadBy({"LIBTORCH_BYPASS_VERSION_CHECK"})
    /\ UNCHANGED <<hostVars, env, files, threads, pc, ret, PROBE, ARCHES, devices, ops,
                   last, calls, panicked>>

InitVersion ==
    /\ target_os = "linux"
    /\ os_type = "Ubuntu"
    /\ feature_download = FALSE
    /\ env \in {[Unset EXCEPT !["LIBTORCH_BYPASS_VERSION_CHECK"] = b] :
                  b \in {None, Some("1"), Some("0")}}
    /\ files = {}
    /\ threads = {1}
    /\ devices = <<>>
    /\ InitProcess

NextVersion == \E version \in VersionTexts : CallCheckPytorchVersion(version)

SpecVersion == InitVersion /\ [][NextVersion]_vars

\* The text before the first '+' of s, all of s when it has none.
CutAtPlus(s) ==
    IF \E i \in 1..Len(s) : s[i] = "+"
    THEN SubSeq(s, 1, (CHOOSE i \in 1..Len(s) :
                         s[i] = "+" /\ \A j \in 1..(i - 1) : s[j] # "+") - 1)
    ELSE s

\* s without the blanks at its two ends.
Unblanked(s) ==
    IF \A i \in 1..Len(s) : s[i] = " " THEN <<>>
    ELSE LET a == CHOOSE i \in 1..Len(s) : s[i] # " " /\ \A j \in 1..(i - 1) : s[j] = " "
             b == CHOOSE i \in 1..Len(s) : s[i] # " " /\ \A j \in (i + 1)..Len(s) : s[j] = " "
         IN  SubSeq(s, a, b)

BypassSet ==
    IsSome(env["LIBTORCH_BYPASS_VERSION_CHECK"])
      /\ Unwrap(env["LIBTORCH_BYPASS_VERSION_CHECK"]) # "0"

CheckedVersion == IsSome(out) /\ Unwrap(out).fn = "check_pytorch_version"

\* C23 (as claimed): check_pytorch_version succeeds exactly when the bypass
\* flag is set or the reported text cut at its first '+' is the expected
\* version, and returns the version-mismatch error otherwise.
C23_CutEqualsExpected ==
    CheckedVersion =>
      LET o == Unwrap(out) IN
      IF BypassSet \/ CutAtPlus(o.version) = <<"2.0.0">>
      THEN o.res.ok
      ELSE o.res = Err("VersionMismatch")

\* C23 (amended): check_pytorch_version succeeds exactly when the bypass
\* flag is set or the reported text, first stripped of the blanks at its two
\* ends and then cut at its first '+', is the expected version, and returns
\* the version-mismatch error otherwise; "2.0.0+cu117" matches "2.0.0",
\* "2.1.0+cpu" does not.
C23_TrimmedCutEqualsExpected ==
    CheckedVersion =>
      LET o == Unwrap(out) IN
      /\ IF BypassSet \/ CutAtPlus(Unblanked(o.version)) = <<"2.0.0">>
         THEN o.res.ok
         ELSE o.res = Err("VersionMismatch")
      /\ (o.version = <<"2.0.0", "+", "cu117">>) => o.res.ok
      /\ (o.version = <<"2.1.0", "+", "cpu">> /\ ~BypassSet) => ~o.res.ok

\* C23 witness: with the flag not set, " 2.0.0" passed the check.
C23_Witness ==
    /\ CheckedVersion /\ ~BypassSet
    /\ Unwrap(out).version = <<" ", "2.0.0">>
    /\ Unwrap(out).res.ok

\* The last run of the resolution body ran the interpreter.
RanPython == IsSome(last.py)

\* C24 (as claimed): when the interpreter could not be started, exited with
\* a failure status, or printed no ABI line or no library-directory line,
\* the interpreter probe fails and the resolution with it; no Library comes
\* from a subprocess that exited with a failure status.
C24_FailedSubprocessFails ==
    RanPython =>
      LET py == Unwrap(last.py) IN
      (~py.spawned \/ ~py.success \/ ~py.abi_line \/ ~py.lib_line)
        => ~Unwrap(last.res).ok

\* C27 (as claimed): whenever resolution through the interpreter probe
\* succeeds and the bypass flag is not set, a version line was checked (and
\* so carried the expected version): an output with the ABI and
\* library-directory lines but no version line gives no Library.
C27_VersionChecked ==
    (RanPython /\ Unwrap(last.res).ok /\ ~BypassSet) => Unwrap(last.py).version_line

\* ------------------------------------------ extraction (download.rs)

\* The working directory of the process. Here `files` holds every path that
\* exists, directories included.
Cwd == <<"pkg">>

\* The path the system resolves: a ".." component drops the one before it.
RECURSIVE Resolve(_, _)
Resolve(path, acc) ==
    IF path = <<>> THEN acc
    ELSE IF Head(path) = ".."
    THEN Resolve(Tail(path), IF acc = <<>> THEN <<>> ELSE SubSeq(acc, 1, Len(acc) - 1))
    ELSE Resolve(Tail(path), Append(acc, Head(path)))

\* The name climbs above the directory it starts in.
RECURSIVE Climbs(_, _)
Climbs(name, depth) ==
    IF name = <<>> THEN FALSE
    ELSE IF Head(name) = ".." THEN depth = 0 \/ Climbs(Tail(name), depth - 1)
    ELSE Climbs(Tail(name), depth + 1)

\* ZipFile::enclosed_name: the entry's name as a relative path, None when it
\* is absolute (first component "/") or climbs out.
enclosed_name(name) ==
    IF name = <<>> \/ Head(name) = "/" \/ Climbs(name, 0) THEN None ELSE Some(name)

\* fs::create_dir_all: the directory and the ancestors it lacks.
create_dir_all(fs, path) ==
    LET p == Resolve(path, <<>>) IN fs \cup {SubSeq(p, 1, n) : n \in 1..Len(p)}

\* fs::File::create: the file, when the directory it goes into exists.
FileCreate(fs, path) ==
    LET p == Resolve(path, <<>>)
    IN  IF Len(p) > 1 /\ SubSeq(p, 1, Len(p) - 1) \notin fs THEN Err("Io")
        ELSE Ok(fs \cup {p})

\* The body of extract's loop on one entry: a file entry is created at
\* outpath joined with its name, a directory entry by create_dir_all on the
\* name itself, which is relative to the working directory.
ExtractEntry(entry, outpath, fs) ==
    LET path == enclosed_name(entry.name) IN
    IF ~IsSome(path) THEN [res |-> Err("Unenclosed"), fs |-> fs]
    ELSE IF entry.is_file
    THEN LET made == FileCreate(fs, outpath \o Unwrap(path))
         IN  IF made.ok THEN [res |-> Ok("unit"), fs |-> made.val]
             ELSE [res |-> made, fs |-> fs]
    ELSE [res |-> Ok("unit"), fs |-> create_dir_all(fs, Cwd \o Unwrap(path))]

\* extract: the entries in the archive's order, until one fails.
RECURSIVE extract(_, _, _)
extract(entries, outpath, fs) ==
    IF entries = <<>> THEN [res |-> Ok("unit"), fs |-> fs]
    ELSE LET step == ExtractEntry(Head(entries), outpath, fs)
         IN  IF step.res.ok THEN extract(Tail(entries), outpath, step.fs) ELSE step

\* The most entries in an archive.
MaxEntries == 3

ZipDir(name) == [name |-> name, is_file |-> FALSE]
ZipFile(name) == [name |-> name, is_file |-> TRUE]

\* The entries of the archives: directories and files of a libtorch tree, a
\* file at the top, and names that are absolute or climb out.
EntryPool ==
    {ZipDir(<<"libtorch">>), ZipDir(<<"libtorch", "lib">>),
     ZipFile(<<"libtorch", "lib", "libtorch.so">>), ZipFile(<<"README">>),
     ZipFile(<<"..", "evil">>), ZipFile(<<"/", "etc", "passwd">>)}

Archives == UNION {[1..n -> EntryPool] : n \in 0..MaxEntries}

\* extract on an archive, into OUT_DIR/libtorch. The filesystem keeps what
\* the entries before a failing one created. A behaviour is one extraction.
CallExtract(archive) ==
    /\ ~panicked /\ out = None
    /\ \E r \in {extract(archive, DownloadDir, files)} :
         /\ files' = r.fs
         /\ out' = Some([fn |-> "extract", archive |-> archive, res |-> r.res,
                         before |-> files])
    /\ UNCHANGED <<hostVars, envVars, pc, ret, PROBE, ARCHES, ops, last, calls, panicked>>

\* download_libtorch has created OUT_DIR/libtorch; a tree of an earlier
\* build may be there.
InitExtract ==
    /\ target_os = "linux"
    /\ os_type = "Ubuntu"
    /\ feature_download = TRUE
    /\ env = Unset
    /\ files \in {{OUT_DIR, DownloadDir, Cwd},
                  {OUT_DIR, DownloadDir, Cwd, Join(DownloadDir, "libtorch"),
                   Join(Join(DownloadDir, "libtorch"), "lib")}}
    /\ threads = {1}
    /\ devices = <<>>
    /\ InitProcess

NextExtract == \E archive \in Archives : CallExtract(archive)

SpecExtract == InitExtract /\ [][NextExtract]_vars

ExtractedOut == IsSome(out) /\ Unwrap(out).fn = "extract"

\* The entries of the archive whose name is not a safely enclosed relative
\* path.
Unenclosed(archive) ==
    {i \in 1..Len(archive) :
       \/ archive[i].name = <<>> \/ Head(archive[i].name) = "/"
       \/ \E n \in 1..Len(archive[i].name) :
            2 * Cardinality({k \in 1..n : archive[i].name[k] = ".."}) > n}

\* C25 (as claimed): extraction creates nothing outside the extraction
\* directory; when it succeeds every entry of the archive, file or
\* directory, exists under the extraction directory at its relative path;
\* and an archive with an entry that is not safely enclosed fails.
C25_UnderTarget ==
    ExtractedOut =>
      LET o == Unwrap(out) IN
      /\ \A p \in files \ o.before : IsPrefix(DownloadDir, p)
      /\ o.res.ok => \A i \in 1..Len(o.archive) :
                       (DownloadDir \o o.archive[i].name) \in files
      /\ Unenclosed(o.archive) # {} => ~o.res.ok

\* ------------------------------------------ the extensions (build/*.rs)

\* A variant that prints the search path only.
print_cargo_link_search_no_rpath(path) ==
    <<[directive |-> "rustc-link-search", arg |-> path]>>

\* The cargo directives of print_cargo_link_search and
\* print_cargo_link_library, as lines printed in order.
print_cargo_link_search(path) ==
    <<[directive |-> "rustc-link-search", arg |-> path],
      [directive |-> "rustc-link-arg-rpath", arg |-> path]>>

print_cargo_link_library(name) == <<[directive |-> "rustc-link-lib", arg |-> name]>>

\* for_each of a printer over a list: the printed lines one after the other.
RECURSIVE ForEach(_, _)
ForEach(list, printer) ==
    IF list = <<>> THEN <<>>
    ELSE (IF printer = "search" THEN print_cargo_link_search(Head(list))
          ELSE print_cargo_link_library(Head(list)))
         \o ForEach(Tail(list), printer)

\* What python3-config can do: not start, exit with a failure, or print
\* flags, each with its first two characters as key and the rest as value.
PyFlag(key, value) == [key |-> key, value |-> value]
PyConfigOutcomes ==
    {[spawned |-> FALSE, success |-> FALSE, flags |-> <<>>],
     [spawned |-> TRUE, success |-> FALSE, flags |-> <<>>],
     [spawned |-> TRUE, success |-> TRUE,
      flags |-> <<PyFlag("-I", <<"usr", "include", "python3">>),
                  PyFlag("-L", <<"usr", "lib", "python3">>),
                  PyFlag("-l", "python3"), PyFlag("-l", "dl"), PyFlag("", "")>>]}

\* link_python_libs_unix: a search path per -L flag, a library per -l flag.
RECURSIVE PrintPyFlags(_)
PrintPyFlags(flags) ==
    IF flags = <<>> THEN <<>>
    ELSE (CASE Head(flags).key = "-L" -> print_cargo_link_search(Head(flags).value)
            [] Head(flags).key = "-l" -> print_cargo_link_library(Head(flags).value)
            [] OTHER -> <<>>)
         \o PrintPyFlags(Tail(flags))

link_python_libs_unix(pyconf) ==
    IF ~pyconf.spawned \/ ~pyconf.success
    THEN [res |-> Err("PythonConfigError"), printed |-> <<>>]
    ELSE [res |-> Ok("unit"), printed |-> PrintPyFlags(pyconf.flags)]

\* An extension as its builder left it.
Extension(use_cuda_api, link_python, link_searches, libs) ==
    [use_cuda_api |-> use_cuda_api, link_python |-> link_python,
     link_searches |-> link_searches, libraries |-> libs]

\* The rest of link_unix after libtorch's own lines: the user's lines in
\* the extension's order, then the interpreter's.
LinkTail(printed, user, link_python, pyconf) ==
    IF ~link_python THEN [res |-> Ok("unit"), printed |-> printed \o user]
    ELSE LET py == link_python_libs_unix(pyconf)
         IN  [res |-> py.res, printed |-> printed \o user \o py.printed]

\* CppExtension::link_unix on the resolved Library: what it prints and what
\* it returns.
CppLinkUnix(ext, lib, pyconf) ==
    LET paths == link_paths(lib, Some(ext.use_cuda_api)) IN
    IF ~paths.ok THEN [res |-> paths, printed |-> <<>>]
    ELSE LET libs == libraries(lib, Some(ext.use_cuda_api), ext.link_python) IN
         IF ~libs.ok THEN [res |-> libs, printed |-> ForEach(paths.val, "search")]
         ELSE LinkTail(ForEach(paths.val, "search") \o ForEach(libs.val, "library"),
                       ForEach(ext.link_searches, "search")
                         \o ForEach(ext.libraries, "library"),
                       ext.link_python, pyconf)

\* CudaExtension::link_unix: the same with the GPU libraries always asked
\* for, after the check that the Library has them.
CudaLinkUnix(ext, lib, pyconf) ==
    IF ~is_cuda_api_available(lib) THEN [res |-> Err("GpuUnavailable"), printed |-> <<>>]
    ELSE LET paths == link_paths(lib, Some(TRUE)) IN
         IF ~paths.ok THEN [res |-> paths, printed |-> <<>>]
         ELSE LET libs == libraries(lib, Some(TRUE), ext.link_python) IN
              IF ~libs.ok THEN [res |-> libs, printed |-> ForEach(paths.val, "search")]
              ELSE LinkTail(ForEach(paths.val, "search") \o ForEach(libs.val, "library"),
                            ForEach(ext.libraries, "library")
                              \o ForEach(ext.link_searches, "search"),
                            ext.link_python, pyconf)

UserDir == <<"home", "user", "lib">>
UserDirs == {<<>>, <<UserDir>>, <<UserDir, <<"opt", "extra">>>>}
UserLibraries == {<<>>, <<"foo">>}

Extensions ==
    {Extension(c, p, s, l) : c \in BOOLEAN, p \in BOOLEAN, s \in UserDirs,
                             l \in UserLibraries}

\* A CudaExtension has no use_cuda_api field: it always asks for the GPU.
CudaExtensions == {ext \in Extensions : ext.use_cuda_api}

\* link() of an extension of kind "cpp" or "cuda", once the cell holds the
\* Library; libraries() dereferences TARGET. A behaviour has one such call.
CallLink(kind, ext, pyconf) ==
    /\ ~panicked /\ IsSome(PROBE) /\ out = None
    /\ \E r \in {IF kind = "cpp" THEN CppLinkUnix(ext, Unwrap(PROBE), pyconf)
                 ELSE CudaLinkUnix(ext, Unwrap(PROBE), pyconf)} :
         \E target_read \in {\E i \in 1..Len(r.printed) :
                                r.printed[i].directive = "rustc-link-lib"} :
         /\ out' = Some([fn |-> "link", kind |-> kind, ext |-> ext, pyconf |-> pyconf,
                         lib |-> Unwrap(PROBE), res |-> r.res, printed |-> r.printed])
         /\ lazy' = IF target_read THEN Forced({"TARGET"}) ELSE lazy
         /\ rerun' = IF target_read THEN rerun \cup ReadBy({"TARGET"}) ELSE rerun
         /\ consumed' = IF target_read THEN consumed \cup ReadBy({"TARGET"}) ELSE consumed
    /\ UNCHANGED <<hostVars, env, files, pc, ret, PROBE, ARCHES, ops, last, calls,
                   panicked>>

\* A cc::Build, as the calls on it left it.
EmptyBuild ==
    [cuda |-> FALSE, pic |-> FALSE, includes |-> <<>>, flags |-> <<>>, files |-> <<>>]

UserIncludes == <<<<"home", "user", "include">>>>
UserSources == <<<<"src", "kernel.cu">>>>

Flag(name, arg) == [flag |-> name, arg |-> arg]
FlagEach(name, args) == [i \in 1..Len(args) |-> Flag(name, args[i])]

\* add_link_search: -Xlinker and the rpath of the path.
RECURSIVE AddLinkSearches(_)
AddLinkSearches(paths) ==
    IF paths = <<>> THEN <<>>
    ELSE <<Flag("-Xlinker", <<>>), Flag("-Wl,-rpath=", Head(paths))>>
         \o AddLinkSearches(Tail(paths))

\* probe_python: the -I, -L and -l values of python3-config.
RECURSIVE FlagValues(_, _)
FlagValues(flags, key) ==
    IF flags = <<>> THEN <<>>
    ELSE (IF Head(flags).key = key THEN <<Head(flags).value>> ELSE <<>>)
         \o FlagValues(Tail(flags), key)

probe_python(pyconf) ==
    IF ~pyconf.spawned \/ ~pyconf.success THEN Err("PythonConfigError")
    ELSE Ok([includes |-> FlagValues(pyconf.flags, "-I"),
             link_searches |-> FlagValues(pyconf.flags, "-L"),
             libraries |-> FlagValues(pyconf.flags, "-l")])

\* CudaExtension::configure_cc_unix from the call of cuda_arches on, whose
\* result is arches: the build it leaves and what it returns. cuda(true)
\* and pic(true) are applied before include_paths is evaluated.
ConfigureCcBuild(ext, lib, arches, pyconf) ==
    IF ~arches.ok THEN [res |-> arches, build |-> EmptyBuild]
    ELSE
    LET b0 == [EmptyBuild EXCEPT !.cuda = TRUE, !.pic = TRUE]
        inc == include_paths(lib, Some(TRUE))
    IN  IF ~inc.ok THEN [res |-> inc, build |-> b0]
        ELSE
        LET b1 == [b0 EXCEPT
                     !.includes = inc.val \o UserIncludes,
                     !.flags = <<Flag("-std=c++14", <<>>),
                                 Flag("-D_GLIBCXX_USE_CXX11_ABI=",
                                      IF lib.use_cxx11_abi THEN "1" ELSE "0")>>
                               \o FlagEach("nvcc", [i \in 1..Len(arches.val) |->
                                                      nvcc_flag(arches.val[i])]),
                     !.files = UserSources]
            paths == link_paths(lib, Some(TRUE))
        IN  IF ~paths.ok THEN [res |-> paths, build |-> b1]
            ELSE
            LET b2 == [b1 EXCEPT !.flags = @ \o AddLinkSearches(paths.val)]
                libs == libraries(lib, Some(TRUE), ext.link_python)
            IN  IF ~libs.ok THEN [res |-> libs, build |-> b2]
                ELSE
                LET b3 == [b2 EXCEPT !.flags = @ \o FlagEach("-l", libs.val)
                                                 \o FlagEach("-l", ext.libraries)
                                                 \o AddLinkSearches(ext.link_searches)]
                    py == probe_python(pyconf)
                IN  IF ~ext.link_python THEN [res |-> Ok("unit"), build |-> b3]
                    ELSE IF ~py.ok THEN [res |-> py, build |-> b3]
                    ELSE [res |-> Ok("unit"),
                          build |-> [b3 EXCEPT
                                       !.includes = @ \o py.val.includes,
                                       !.flags = @ \o AddLinkSearches(py.val.link_searches)
                                                   \o FlagEach("-l", py.val.libraries)]]

\* CudaExtension::configure_cc once the cell holds the Library: the check of
\* the GPU runtime, then cuda_arches (the cached architectures, else the
\* initialiser of ARCHES on the outcome en of the driver calls), then the
\* build. A behaviour has one such call.
CallConfigureCc(ext, en, pyconf) ==
    /\ ~panicked /\ IsSome(PROBE) /\ out = None
    /\ IF ~is_cuda_api_available(Unwrap(PROBE))
       THEN /\ out' = Some([fn |-> "configure_cc", kind |-> "cuda", ext |-> ext,
                            lib |-> Unwrap(PROBE), res |-> Err("GpuUnavailable"),
                            build |-> EmptyBuild])
            /\ UNCHANGED <<lazy, rerun, consumed, ARCHES, ops, panicked>>
       ELSE \E arches \in {IF IsSome(ARCHES) THEN Ok(Unwrap(ARCHES)) ELSE host_arches(en)} :
            /\ ops' = IF IsSome(ARCHES) THEN ops ELSE Bump(ops, {"enumerate"})
            /\ IF ~arches.ok /\ arches.err = "panic"
               THEN /\ panicked' = TRUE
                    /\ UNCHANGED <<lazy, rerun, consumed, ARCHES, out>>
               ELSE \E r \in {ConfigureCcBuild(ext, Unwrap(PROBE), arches, pyconf)} :
                    \E target_read \in {\E i \in 1..Len(r.build.flags) :
                                           r.build.flags[i].flag = "-l"} :
                    /\ ARCHES' = IF arches.ok THEN Some(arches.val) ELSE ARCHES
                    /\ out' = Some([fn |-> "configure_cc", kind |-> "cuda", ext |-> ext,
                                    lib |-> Unwrap(PROBE), res |-> r.res,
                                    build |-> r.build])
                    /\ lazy' = IF target_read THEN Forced({"TARGET"}) ELSE lazy
                    /\ rerun' = IF target_read THEN rerun \cup ReadBy({"TARGET"}) ELSE rerun
                    /\ consumed' = IF target_read THEN consumed \cup ReadBy({"TARGET"})
                                   ELSE consumed
                    /\ UNCHANGED panicked
    /\ UNCHANGED <<hostVars, env, files, pc, ret, PROBE, last, calls>>

\* CudaExtension::configure_bindgen: the arguments added to the builder.
ConfigureBindgen(lib, pyconf) ==
    IF ~is_cuda_api_available(lib) THEN [res |-> Err("GpuUnavailable"), args |-> <<>>]
    ELSE LET a1 == <<Flag("-x", <<>>), Flag("c++", <<>>)>> \o FlagEach("-I", UserIncludes)
             inc == include_paths(lib, Some(TRUE))
             py == probe_python(pyconf)
         IN  IF ~inc.ok THEN [res |-> inc, args |-> a1]
             ELSE IF ~py.ok THEN [res |-> py, args |-> a1 \o FlagEach("-I", inc.val)]
             ELSE [res |-> Ok("unit"),
                   args |-> a1 \o FlagEach("-I", inc.val) \o FlagEach("-I", py.val.includes)]

CallConfigureBindgen(pyconf) ==
    /\ ~panicked /\ IsSome(PROBE) /\ out = None
    /\ \E r \in {ConfigureBindgen(Unwrap(PROBE), pyconf)} :
         out' = Some([fn |-> "configure_bindgen", kind |-> "cuda", lib |-> Unwrap(PROBE),
                      res |-> r.res, args |-> r.args])
    /\ UNCHANGED <<hostVars, envVars, files, pc, ret, PROBE, ARCHES, ops, last, calls,
                   panicked>>

\* A process that resolves libtorch through LIBTORCH and then builds an
\* extension, on a host with no, one or two devices.
InitBuild ==
    /\ target_os \in {"linux", "macos"}
    /\ os_type = IF target_os = "linux" THEN "Ubuntu" ELSE "Macos"
    /\ feature_download = FALSE
    /\ \E cuda \in {None, Some(CudaDir)}, cudnn \in {None, Some(CudnnDir)},
          rocm \in {None, Some(RocmDir)}, artefacts \in InstallArtefacts :
         LibWorld(TRUE, cuda, cudnn, rocm,
                  Some(IF target_os = "linux" THEN LinuxTarget ELSE AppleTarget),
                  artefacts, {Join(CudaDir, "lib64"), Join(CudnnDir, "lib")})
    /\ threads = {1}
    /\ devices \in {<<>>, <<<<9, 0>>, <<7, 5>>>>}
    /\ InitProcess

NextBuild ==
    \/ \E t \in threads : probe_libtorch(t)
    \/ \E ext \in Extensions, pyconf \in PyConfigOutcomes : CallLink("cpp", ext, pyconf)
    \/ \E ext \in CudaExtensions, pyconf \in PyConfigOutcomes :
         CallLink("cuda", ext, pyconf)
    \/ \E ext \in CudaExtensions, en \in EnumOutcomes, pyconf \in PyConfigOutcomes :
         CallConfigureCc(ext, en, pyconf)
    \/ \E pyconf \in PyConfigOutcomes : CallConfigureBindgen(pyconf)

SpecBuild == InitBuild /\ [][NextBuild]_vars

LinkOut == IsSome(out) /\ Unwrap(out).fn = "link"

\* The lines of a list of paths, a search line and an rpath line each, and
\* of a list of names, a library line each.
RECURSIVE SearchLines(_)
SearchLines(paths) ==
    IF paths = <<>> THEN <<>>
    ELSE <<[directive |-> "rustc-link-search", arg |-> Head(paths)],
           [directive |-> "rustc-link-arg-rpath", arg |-> Head(paths)]>>
         \o SearchLines(Tail(paths))

LibraryLines(names) ==
    [i \in 1..Len(names) |-> [directive |-> "rustc-link-lib", arg |-> names[i]]]

Count(lines, directive) ==
    Cardinality({i \in 1..Len(lines) : lines[i].directive = directive})

\* C26: a link() that succeeds has printed, first, a search line and an
\* rpath line for every path of libtorch's link_paths and a library line for
\* every name of libtorch's libraries, then the same for the user's search
\* paths and libraries, then (when the interpreter is linked) for its -L
\* paths and -l names; whatever link() returns, every search line is
\* followed at once by the rpath line of the same path, and there are as
\* many rpath lines as search lines.
C26_LinkDirectives ==
    LinkOut =>
      LET o == Unwrap(out)
          use == IF o.kind = "cpp" THEN Some(o.ext.use_cuda_api) ELSE Some(TRUE)
          own == SearchLines(link_paths(o.lib, use).val)
                   \o LibraryLines(libraries(o.lib, use, o.ext.link_python).val)
          user == IF o.kind = "cpp"
                  THEN SearchLines(o.ext.link_searches) \o LibraryLines(o.ext.libraries)
                  ELSE LibraryLines(o.ext.libraries) \o SearchLines(o.ext.link_searches)
          python == IF o.ext.link_python
                    THEN SearchLines(<<<<"usr", "lib", "python3">>>>)
                           \o LibraryLines(<<"python3", "dl">>)
                    ELSE <<>>
      IN  /\ o.res.ok => o.printed = own \o user \o python
          /\ Count(o.printed, "rustc-link-search") = Count(o.printed, "rustc-link-arg-rpath")
          /\ \A i \in 1..Len(o.printed) :
               o.printed[i].directive = "rustc-link-search" =>
                 /\ i < Len(o.printed)
                 /\ o.printed[i + 1] = [directive |-> "rustc-link-arg-rpath",
                                        arg |-> o.printed[i].arg]

\* C26 witness: a CUDA extension with a user search path, a user library
\* and the interpreter linked succeeded on a split CUDA install with cuDNN.
C26_Witness ==
    /\ LinkOut /\ Unwrap(out).kind = "cuda" /\ Unwrap(out).res.ok
    /\ Unwrap(out).lib.api.tag = "CudaSplit" /\ IsSome(Unwrap(out).lib.api.cudnn_home)
    /\ Unwrap(out).ext.link_python
    /\ Unwrap(out).ext.link_searches = <<UserDir>>
    /\ Unwrap(out).ext.libraries = <<"foo">>
    /\ Count(Unwrap(out).printed, "rustc-link-search") = 5

\* The last call was a method of a CudaExtension.
CudaExtensionOut == IsSome(out) /\ "kind" \in DOMAIN Unwrap(out) /\ Unwrap(out).kind = "cuda"

\* C28: on a Library whose Api is None, configure_cc, link and
\* configure_bindgen of a CudaExtension return the GPU-unavailable error;
\* configure_cc has then started no device enumeration, holds no
\* architectures and left the build as it was, link has printed nothing and
\* configure_bindgen has added no argument.
C28_GpuUnavailableFirst ==
    (CudaExtensionOut /\ Unwrap(out).lib.api.tag = "None") =>
      LET o == Unwrap(out) IN
      /\ o.res = Err("GpuUnavailable")
      /\ ~panicked
      /\ o.fn = "configure_cc" =>
           /\ ops["enumerate"] = 0 /\ ARCHES = None
           /\ o.build = EmptyBuild
      /\ o.fn = "link" => o.printed = <<>>
      /\ o.fn = "configure_bindgen" => o.args = <<>>

\* C28 witness: configure_cc returned the error on a host with two devices,
\* with a CUDA home configured and no artefact in the install.
C28_Witness ==
    /\ CudaExtensionOut /\ Unwrap(out).fn = "configure_cc"
    /\ Unwrap(out).lib.api.tag = "None"
    /\ IsSome(env["CUDA_HOME"]) /\ Len(devices) = 2
    /\ Unwrap(out).res = Err("GpuUnavailable")
    /\ ops["enumerate"] = 0

\* C29 (as claimed): parsing never aborts the process: every call of
\* parse_list or parse_cuda_arch_list, also on a token MAJOR.MINOR whose
\* number is above u32::MAX, returns a list or the invalid-architecture
\* error.
C29_ParseNeverAborts ==
    /\ ~panicked
    /\ ParsedOut => \/ Unwrap(out).res.ok
                    \/ Unwrap(out).res = Err("InvalidArchSpec")

\* C30 (as claimed): every environment variable the resolution has read is
\* named in a rerun-if-env-changed directive printed no later than the read,
\* the fallback names and the variable that selects the interpreter
\* executable included.
C30_ConsumedMarked == consumed \subseteq rerun

====
